---- MODULE Spec2Model ----
(***************************************************************************)
(* Orbity (src/src/orbity.js, class Orbity, lines 13-1256): the tag store  *)
(* and its undo/redo history.                                              *)
(*                                                                         *)
(* JavaScript values are records [t, v]: t is the typeof of the value and  *)
(* v its spelling as a sequence of one-character strings, so that a string *)
(* can be matched character by character and String(number) is v itself.  *)
(* An object field that is absent reads as undefined.  Array positions in  *)
(* the source are 0-based; the sequences here are 1-based, so tags[i] of   *)
(* the source is tags[i + 1] here.                                         *)
(***************************************************************************)
EXTENDS Integers, Sequences, FiniteSets

VARIABLES
    tags,        \* this.tags: the ordered tag collection
    undoStack,   \* this.undoStack: history entries, oldest first
    redoStack,   \* this.redoStack
    last,        \* observer: the public call the last step made, and how it ended
    linear,      \* observer: whether the history is linear, and the contents before the undos
    heap,        \* the tag store once more, with its objects told apart (see Objects)
    settings,    \* this.settings
    velocity,    \* this.velocity
    rotation,    \* this.rotation
    animFrame,   \* this.animFrame: the id of the pending tick, 0 for null
    frames,      \* the callbacks requestAnimationFrame holds for the next frame
    timers,      \* the callbacks setTimeout holds, in the order they were set
    throttle,    \* the closures of _throttle, their timeouts and the clock (see Throttle)
    listeners,   \* the listeners attached to the window and the canvas
    bindings,    \* the closures of _bindDragEvents and _bindOrientation
    _dragHandlers,  \* this._dragHandlers
    _events,     \* this._events: per event name, the callbacks registered with on()
    _hoveredIndex,  \* this._hoveredIndex, -1 for null
    inDocument,  \* whether the canvas is still the element in the page
    watch,       \* observer: what the last step ran, invoked, logged and raised (see Watched)
    scene        \* the tags once more, with their coordinates and boxes as numbers (see The scene)

engine == <<settings, velocity, rotation, animFrame, frames, timers, throttle, listeners, bindings,
            _dragHandlers, _events, _hoveredIndex, inDocument, watch>>

vars == <<tags, undoStack, redoStack, last, linear, heap, engine, scene>>

---------------------------------------------------------------------------
(* Bounds of the model *)

MaxTags == 2     \* no call is taken that would make the collection longer than this
MaxHist == 2     \* add/remove/update are taken while the undo stack is shorter

---------------------------------------------------------------------------
(* JavaScript values *)

undefined == [t |-> "undefined", v |-> <<>>]
Str(s) == [t |-> "string", v |-> s]
Num(s) == [t |-> "number", v |-> s]

typeof(x) == x.t

\* ToBoolean on the values used here: undefined, "" and 0 are falsy
Truthy(x) ==
    /\ x.t # "undefined"
    /\ ~(x.t = "string" /\ x.v = <<>>)
    /\ ~(x.t = "number" /\ x.v = <<"0">>)

\* a || b
Or(a, b) == IF Truthy(a) THEN a ELSE b

\* String(x), as RegExp.prototype.test applies it to its argument
StringOf(x) == x.v

HexDigits ==
    {"0", "1", "2", "3", "4", "5", "6", "7", "8", "9",
     "a", "b", "c", "d", "e", "f", "A", "B", "C", "D", "E", "F"}

\* the pattern with three digits allowed as well: /^#([0-9A-F]{3}){1,2}$/i
HexColorRegexTest_ShortAllowed(s) ==
    /\ Len(s) \in {4, 7}
    /\ s[1] = "#"
    /\ \A i \in 2..Len(s) : s[i] \in HexDigits

\* /^#[0-9A-F]{6}$/i.test(s)
HexColorRegexTest(s) ==
    /\ Len(s) = 7
    /\ s[1] = "#"
    /\ \A i \in 2..7 : s[i] \in HexDigits

---------------------------------------------------------------------------
(* Tags *)

\* the content fields a tag data object may carry or leave out
ContentFields == {"text", "color", "fontSize"}

\* the content of a tag: what the caller gave, without the presentation state
Content(tag) == [f \in ContentFields |-> tag[f]]
Contents(ts) == [i \in 1..Len(ts) |-> Content(ts[i])]

\* _screen is {} until a draw pass has stored a box in it
EmptyScreen == "{}"
Box == "box"

\* x, y, z: undefined until a layout has assigned the tag its coordinate
NoPos == "undefined"
Placed == "placed"
\* x, y, z after a tick has rotated them
Turned == "turned"

\* the tag the pointer is over, as _onCanvasMouseMove and _onCanvasClick dress it
HoverScale == "1.2"
ClickScale == "1.32"
HoverColor == Str(<<"#", "f", "f", "0">>)

\* { ...data, index, _screen: {}, _scale: 1, _color: data.color, _opacity: 1 }
NewTag(data, index) ==
    [text     |-> data.text,
     color    |-> data.color,
     fontSize |-> data.fontSize,
     index    |-> index,
     _screen  |-> EmptyScreen,
     _scale   |-> "1",
     _color   |-> data.color,
     _opacity |-> "1",
     pos      |-> NoPos]

\* an assignment that also copies the fields src lacks, as undefined
ObjectAssign_CopiesMissing(target, src) ==
    [f \in DOMAIN target |-> IF f \notin DOMAIN src THEN target[f] ELSE src[f]]

\* Object.assign(target, src): every own field of src overwrites the target's;
\* a field src lacks (a content field that reads undefined) is left as it was
ObjectAssign(target, src) ==
    [f \in DOMAIN target |->
        IF f \notin DOMAIN src THEN target[f]
        ELSE IF f \in ContentFields /\ src[f] = undefined THEN target[f]
        ELSE src[f]]

\* array.splice(i, 0, e) for i >= 0: a start past the end is clamped to the end
SpliceInsert(s, i, e) ==
    LET k == IF i > Len(s) THEN Len(s) ELSE i
    IN  SubSeq(s, 1, k) \o <<e>> \o SubSeq(s, k + 1, Len(s))

\* a removal that takes the last element whatever i is
SpliceRemove_TakesLast(s, i) ==
    IF i >= Len(s) THEN s ELSE SubSeq(s, 1, Len(s) - 1)

\* array.splice(i, 1) for i >= 0: nothing is removed when i is past the end
SpliceRemove(s, i) ==
    IF i >= Len(s) THEN s
    ELSE SubSeq(s, 1, i) \o SubSeq(s, i + 2, Len(s))

\* array[i]: undefined outside the array, and { ...undefined } is {}
At(s, i, none) == IF i + 1 \in DOMAIN s THEN s[i + 1] ELSE none

\* array.pop(): an empty array stays empty
Pop(s) == IF Len(s) = 0 THEN s ELSE SubSeq(s, 1, Len(s) - 1)

\* a reindexing that leaves every index as it was
_reindexTags_Skipped(ts) == ts

_reindexTags(ts) == [i \in 1..Len(ts) |-> [ts[i] EXCEPT !.index = i - 1]]

\* every tag is assigned the coordinate the shape's rule gives its position;
\* the store keeps only that the tag has one (it holds at most MaxTags tags,
\* fewer than the four from which on the pyramid leaves tags out: see switch)
_positionTags(ts) ==
    IF Len(ts) = 0 THEN ts
    ELSE [i \in 1..Len(ts) |-> [ts[i] EXCEPT !.pos = Placed]]

\* the draw pass, as far as the tags go: a tag with a string text and a
\* coordinate is drawn, and a drawn tag with a non-empty text gets its box
_draw(ts) ==
    [i \in 1..Len(ts) |->
        IF typeof(ts[i].text) = "string" /\ ts[i].pos # NoPos /\ Truthy(ts[i].text)
        THEN [ts[i] EXCEPT !._screen = Box]
        ELSE ts[i]]

\* what _validateTag logs with console.error before it returns false, or "ok"
_validateTagError(tagData) ==
    IF ~Truthy(tagData.text) \/ typeof(tagData.text) # "string"
    THEN "Invalid tag: 'text' is required and must be a string."
    ELSE IF ~Truthy(tagData.color) \/ ~HexColorRegexTest(StringOf(tagData.color))
    THEN "Invalid tag: 'color' must be a valid hex color code."
    ELSE "ok"

_validateTag(tagData) == _validateTagError(tagData) = "ok"

---------------------------------------------------------------------------
(* History entries: { action, tag, index } or { action, oldData, newData } *)

NoTag == NewTag([text |-> undefined, color |-> undefined, fontSize |-> undefined], -1)

AddEntry(tag) ==
    [action |-> "add", tag |-> tag, index |-> -1, oldData |-> NoTag, newData |-> NoTag]
RemoveEntry(tag, index) ==
    [action |-> "remove", tag |-> tag, index |-> index, oldData |-> NoTag, newData |-> NoTag]
UpdateEntry(oldData, newData) ==
    [action |-> "update", tag |-> NoTag, index |-> -1, oldData |-> oldData, newData |-> newData]

---------------------------------------------------------------------------
(* The inputs the calls are made with *)

\* colours: six hex digits in mixed case, the short form of the documentation
\* and of the tests, a non-hex digit, seven digits, no leading '#'
LongHex == Str(<<"#", "0", "0", "A", "a", "f", "F">>)
ShortHex == Str(<<"#", "f", "f", "f">>)
NotHex == Str(<<"#", "0", "0", "0", "0", "0", "g">>)
SevenHex == Str(<<"#", "0", "0", "0", "0", "0", "0", "0">>)
NoHash == Str(<<"f", "f", "f", "f", "f", "f", "0">>)

TextA == Str(<<"A">>)
TextB == Str(<<"B">>)
Size20 == Num(<<"2", "0">>)

InvalidTexts == {undefined, Str(<<>>), Num(<<"7">>)}
InvalidColors == {undefined, Str(<<>>), ShortHex, NotHex, SevenHex, NoHash}

PlainA == [text |-> TextA, color |-> LongHex, fontSize |-> undefined]
SizedB == [text |-> TextB, color |-> LongHex, fontSize |-> Size20]

\* addTag(tagData): two tags that pass validation, each invalid text with a
\* valid colour, each invalid colour with a valid text, and an empty object
TagInputs ==
    {PlainA, SizedB}
        \cup [text : InvalidTexts, color : {LongHex}, fontSize : {undefined}]
        \cup [text : {TextA}, color : InvalidColors, fontSize : {undefined}]
        \cup {[text |-> undefined, color |-> undefined, fontSize |-> undefined]}

\* updateTag(index, data): data overwrites a field the tags have, or brings a
\* field a tag may lack
PartialInputs ==
    {[text |-> TextB, color |-> undefined, fontSize |-> undefined],
     [text |-> undefined, color |-> ShortHex, fontSize |-> Size20]}

\* setTags(dataArray): the entries are not validated; the lists are the first
\* n entries of A, B, A, B, ... with the colours as the documentation writes them
SetTagsData(i) ==
    IF i % 2 = 1
    THEN [text |-> TextA, color |-> ShortHex, fontSize |-> undefined]
    ELSE [text |-> TextB, color |-> LongHex, fontSize |-> Size20]

SetTagsInputs == {[i \in 1..n |-> SetTagsData(i)] : n \in 0..MaxTags}

\* removeTag(index), updateTag(index, ...): every position, the one before the
\* first and the one after the last
IndexInputs == -1..MaxTags

NoData == [text |-> undefined, color |-> undefined, fontSize |-> undefined]

---------------------------------------------------------------------------
(* Observers: they record what happened and are read by no operation *)

\* the call a step made; how it ended: "ok", "returned" for a silent early
\* return, the diagnostic it logged, or the exception it raised; for an
\* accepted addTag, removeTag or updateTag, the contents of the collection
\* before the call and the number of redo entries it discarded
Call(op, outcome) == [op |-> op, outcome |-> outcome, before |-> <<>>, dropped |-> 0]
Edit(op) == [op |-> op, outcome |-> "ok", before |-> Contents(tags), dropped |-> Len(redoStack)]

\* the history is linear while every entry of the two stacks was pushed on the
\* collection as it is now: no setTags or clearTags came over a history that
\* held entries, and no accepted edit discarded undone entries; before is the
\* contents of the collection before the first of the undos not yet redone
Linear(contents) == [clean |-> TRUE, before |-> contents]
Broken == [clean |-> FALSE, before |-> <<>>]
AfterEdit == IF linear.clean /\ Len(redoStack) = 0 THEN linear ELSE Broken
AfterReplace == IF Len(undoStack) = 0 /\ Len(redoStack) = 0 THEN Linear(<<>>) ELSE Broken
AfterUndo ==
    IF linear.clean /\ Len(redoStack) = 0 THEN Linear(Contents(tags)) ELSE linear
AfterRedo == IF linear.clean /\ Len(redoStack) = 1 THEN Linear(<<>>) ELSE linear

---------------------------------------------------------------------------
(* Objects: the tag store with its objects told apart.  An object is a cell
   of heap.objects, named by a reference; heap.tags holds the references of
   the live tags, and an entry of heap.undoStack or heap.redoStack holds the
   references of its snapshots (0 where it has none).  Two holders of one
   reference see each other's assignments. *)

Refs == 1..(MaxTags + 2 * MaxHist + 2)
NoRef == 0

EmptyHeap ==
    [objects |-> [r \in Refs |-> NoTag], used |-> {}, tags |-> <<>>,
     undoStack |-> <<>>, redoStack |-> <<>>]

\* the reference the next object literal or spread gets
NewRef(h) == CHOOSE r \in Refs \ h.used : \A q \in Refs \ h.used : r <= q

\* { ...fields }: a new object with these fields
ObjectLiteral(h, fields) ==
    [h EXCEPT !.objects[NewRef(h)] = fields, !.used = @ \cup {NewRef(h)}]

\* { ...this.tags[i] }, { ...newTag }, { ...lastAction.tag }: a new object
\* with the fields of the object r
Spread(h, r) == ObjectLiteral(h, h.objects[r])

\* a spread that hands back the object it was given
SpreadRef_SameObject(h, r) == r

\* the reference of the object Spread(h, r) makes
SpreadRef(h, r) == NewRef(h)

\* tag.field = value, for every field of fields, on the object r
AssignFields(h, r, fields) ==
    [h EXCEPT !.objects[r] = [f \in DOMAIN @ |-> IF f \in DOMAIN fields THEN fields[f] ELSE @[f]]]

EntryRefs(h) ==
    {e[k] : e \in {h.undoStack[i] : i \in 1..Len(h.undoStack)}
                   \cup {h.redoStack[i] : i \in 1..Len(h.redoStack)},
            k \in {"tag", "oldData", "newData"}} \ {NoRef}
LiveRefs(h) == {h.tags[i] : i \in 1..Len(h.tags)}

\* an object nothing refers to any more is gone
Collect(h) ==
    LET kept == EntryRefs(h) \cup LiveRefs(h)
    IN  [h EXCEPT !.used = kept,
                  !.objects = [r \in Refs |-> IF r \in kept THEN @[r] ELSE NoTag]]

\* this.tags.forEach((tag) => ...): the fields assigned to every live tag
AssignLive(h, fields) ==
    [h EXCEPT !.objects =
        [r \in Refs |->
            IF r \in LiveRefs(h)
            THEN [f \in DOMAIN @[r] |-> IF f \in DOMAIN fields THEN fields[f] ELSE @[r][f]]
            ELSE @[r]]]

\* the position of the object r in the collection, 0-based: the last one,
\* should the collection hold it twice
LastIndexOf(h, r) ==
    (CHOOSE i \in 1..Len(h.tags) :
        h.tags[i] = r /\ \A j \in (i + 1)..Len(h.tags) : h.tags[j] # r) - 1

\* _reindexTags and _positionTags on the live objects
ReindexLive(h) ==
    [h EXCEPT !.objects =
        [r \in Refs |->
            IF r \in LiveRefs(h) THEN [@[r] EXCEPT !.index = LastIndexOf(h, r)] ELSE @[r]]]
PositionLive(h) == AssignLive(h, [pos |-> Placed])

\* the end of every operation of the store: reindexing, layout, and the
\* objects nothing holds any more let go
Settle(h) == Collect(PositionLive(ReindexLive(h)))

\* the entries, with references for snapshots
RefEntry(action, tag, index, oldData, newData) ==
    [action |-> action, tag |-> tag, index |-> index, oldData |-> oldData, newData |-> newData]

---------------------------------------------------------------------------
(* Settings.  An option value is a record [t, n, s]: its typeof, for a number
   its value in thousandths (0.95 is 950), for a string its text.  NaN is a
   number; NoKey stands for a key the options object does not have. *)

JsNumber(n) == [t |-> "number", n |-> n, s |-> ""]
JsString(s) == [t |-> "string", n |-> 0, s |-> s]
JsBoolean(b) == [t |-> "boolean", n |-> IF b THEN 1000 ELSE 0, s |-> ""]
JsUndefined == [t |-> "undefined", n |-> 0, s |-> ""]
JsNaN == [t |-> "number", n |-> 0, s |-> "NaN"]
NoKey == [t |-> "no key", n |-> 0, s |-> ""]

\* ToBoolean
IsTruthy(x) ==
    CASE x.t = "number" -> x.n # 0 /\ x # JsNaN
      [] x.t = "string" -> x.s # ""
      [] x.t = "boolean" -> x.n # 0
      [] OTHER -> FALSE

\* ToNumber on these values: undefined and a text that spells no number give NaN
ToNumber(x) ==
    CASE x.t = "number" -> x
      [] x.t = "boolean" -> JsNumber(x.n)
      [] OTHER -> JsNaN

\* Math.min(Math.max(x, lo), hi): NaN when x is
Clamp(x, lo, hi) ==
    LET v == ToNumber(x)
    IN  IF v = JsNaN THEN JsNaN
        ELSE JsNumber(IF v.n < lo THEN lo ELSE IF v.n > hi THEN hi ELSE v.n)

\* a * b on thousandths, rounded towards zero
Mul(a, b) == IF a * b >= 0 THEN (a * b) \div 1000 ELSE -((-(a * b)) \div 1000)
Abs(a) == IF a < 0 THEN -a ELSE a

DEFAULT_SHAPE == "sphere"
validShapes ==
    {"sphere", "cube", "plane", "helix", "ring", "verticalRing", "cylinder", "pyramid", "torus"}

\* EASING_PROFILES, and the settings every instance starts from
EASING_PROFILES ==
    [Snappy |-> [easeIn |-> 200, friction |-> 900],
     Smooth |-> [easeIn |-> 100, friction |-> 950],
     Marathon |-> [easeIn |-> 50, friction |-> 990]]

DefaultSettings ==
    [radius |-> JsNumber(150000), speed |-> JsNumber(1000), easing |-> JsNumber(100),
     paused |-> JsBoolean(FALSE), enableTouch |-> JsBoolean(TRUE),
     enableOrientation |-> JsBoolean(FALSE), maxVelocity |-> JsNumber(500),
     shape |-> JsString(DEFAULT_SHAPE), enableDrag |-> JsBoolean(TRUE),
     enableClick |-> JsBoolean(TRUE), autoSpin |-> JsBoolean(TRUE),
     easingProfile |-> JsString("Smooth"), customEaseIn |-> JsNumber(100),
     customFriction |-> JsNumber(950), autoEasing |-> JsBoolean(TRUE),
     minVelocityThreshold |-> JsNumber(5), dragSensitivity |-> JsNumber(2000),
     hoverEffect |-> JsBoolean(TRUE), clickEffect |-> JsBoolean(TRUE)]

SettingKeys == DOMAIN DefaultSettings

\* an options object that has the keys of given, and no other
Options(given) == [k \in SettingKeys |-> IF k \in DOMAIN given THEN given[k] ELSE NoKey]

\* Object.assign(a, b), { ...a, ...b }: every key b has, undefined or not, wins
Merge(a, b) == [k \in SettingKeys |-> IF b[k] = NoKey THEN a[k] ELSE b[k]]

\* newOptions.key !== undefined
Given(newOptions, key) == newOptions[key] # NoKey /\ newOptions[key] # JsUndefined

---------------------------------------------------------------------------
(* The engine.  Its methods are operators from the instance e to the instance
   after the call: e.settings, e.velocity and e.rotation (thousandths),
   e.animFrame (0 for null), e.frames (the callbacks requestAnimationFrame
   holds for the next frame, in the order they were requested), e.tags, and
   the rest below.  e.ran and e.emitted take down the callbacks a step ran
   and the event callbacks it invoked. *)

MathMin(a, b) == IF a < b THEN a ELSE b
MathMax(a, b) == IF a > b THEN a ELSE b

\* the id requestAnimationFrame returns: one no pending callback has, and not
\* the one this.animFrame still holds
NextFrameId(e) ==
    CHOOSE id \in 1..(Len(e.frames) + 2) :
        /\ id # e.animFrame
        /\ \A i \in 1..Len(e.frames) : e.frames[i].id # id
        /\ \A q \in 1..(id - 1) : q = e.animFrame \/ \E i \in 1..Len(e.frames) : e.frames[i].id = q

requestAnimationFrame(e, kind, friction, threshold) ==
    [e EXCEPT !.frames = Append(@, [id |-> NextFrameId(e), kind |-> kind,
                                    friction |-> friction, threshold |-> threshold])]

cancelAnimationFrame(e, id) ==
    [e EXCEPT !.frames = SelectSeq(@, LAMBDA f : f.id # id)]

\* the tags after the rotation of a tick: every placed tag has new x, y, z
Turn(ts) == [i \in 1..Len(ts) |-> IF ts[i].pos = NoPos THEN ts[i] ELSE [ts[i] EXCEPT !.pos = Turned]]

_animate(e) ==
    IF IsTruthy(e.settings.paused) THEN e
    ELSE LET st == e.settings
             spun(v) == IF IsTruthy(st.autoEasing)
                        THEN v + Mul(st.speed.n - v, st.customEaseIn.n)
                        ELSE Mul(st.speed.n, 100)
             capped(v) == IF st.maxVelocity.n > 0
                          THEN MathMax(-st.maxVelocity.n, MathMin(v, st.maxVelocity.n))
                          ELSE v
             vel == IF IsTruthy(st.autoSpin)
                    THEN [x |-> capped(spun(e.velocity.x)), y |-> capped(spun(e.velocity.y))]
                    ELSE e.velocity
             moving == vel.x # 0 \/ vel.y # 0
             eased(r, v) == IF IsTruthy(st.autoEasing) THEN r + Mul(v - r, st.easing.n) ELSE r + v
             shape == IF IsTruthy(st.shape) THEN st.shape.s ELSE DEFAULT_SHAPE
             rot == IF ~moving THEN e.rotation
                    ELSE [x |-> IF shape \in {"ring", "helix"} THEN 0
                                ELSE eased(e.rotation.x, vel.x),
                          y |-> IF shape = "verticalRing" THEN 0
                                ELSE eased(e.rotation.y, vel.y)]
             e1 == [e EXCEPT !.velocity = vel, !.rotation = rot,
                             !.tags = _draw(IF moving THEN Turn(@) ELSE @),
                             !.ran = Append(@, "_animate")]
         IN  [requestAnimationFrame(e1, "_animate", 0, 0) EXCEPT !.animFrame = NextFrameId(e1)]

\* this._events[name]?.forEach((cb) => cb(tag)): tag is the index of the tag
\* handed over, -1 for none
Emit(e, name, tag) ==
    IF name \notin DOMAIN e._events THEN e
    ELSE [e EXCEPT !.emitted = @ \o [i \in 1..Len(e._events[name]) |->
                                        [event |-> name, cb |-> e._events[name][i], tag |-> tag]]]

\* a pause that sets the flag and leaves the pending tick requested
pause_KeepsFrame(e) == Emit([e EXCEPT !.settings.paused = JsBoolean(TRUE)], "pause", -1)

pause(e) ==
    LET e1 == [e EXCEPT !.settings.paused = JsBoolean(TRUE)]
        e2 == IF e1.animFrame # 0
              THEN [cancelAnimationFrame(e1, e1.animFrame) EXCEPT !.animFrame = 0]
              ELSE e1
    IN  Emit(e2, "pause", -1)

\* a resume that starts a tick whether the instance is paused or not
resume_Unguarded(e) ==
    Emit(_animate([e EXCEPT !.settings.paused = JsBoolean(FALSE)]), "resume", -1)

resume(e) ==
    IF ~IsTruthy(e.settings.paused) THEN e
    ELSE Emit(_animate([e EXCEPT !.settings.paused = JsBoolean(FALSE)]), "resume", -1)

\* the closure easeOut of _applyDragEasing, with the friction and the
\* threshold _applyDragEasing read when the drag was released
easeOut(e, customFriction, minVelocityThreshold) ==
    LET snapped(v) == IF Abs(Mul(v, customFriction)) < minVelocityThreshold
                      THEN 0 ELSE Mul(v, customFriction)
        e1 == [e EXCEPT !.velocity = [x |-> snapped(e.velocity.x), y |-> snapped(e.velocity.y)],
                        !.ran = Append(@, "easeOut")]
    IN  IF e1.velocity.x # 0 \/ e1.velocity.y # 0
        THEN requestAnimationFrame(e1, "easeOut", customFriction, minVelocityThreshold)
        ELSE e1

_applyDragEasing(e) ==
    easeOut(e, e.settings.customFriction.n, e.settings.minVelocityThreshold.n)

RECURSIVE RunCallbacks(_, _)
\* an animation frame: the callbacks requested before it run in their order;
\* what they request waits for the next frame
RunCallbacks(e, callbacks) ==
    IF callbacks = <<>> THEN e
    ELSE CHOOSE after \in
             {RunCallbacks(next, Tail(callbacks)) :
                  next \in {IF Head(callbacks).kind = "_animate" THEN _animate(e)
                            ELSE easeOut(e, Head(callbacks).friction,
                                         Head(callbacks).threshold)}} : TRUE

---------------------------------------------------------------------------
(* Listeners.  e.listeners is what addEventListener has attached, in order: a
   target, an event type and a handler.  A handler is a function of the
   instance (of = 0) or a closure of the of-th call of _bindDragEvents or
   _bindOrientation; e.bindings holds, per such call, its kind and the
   isDragging of its closures. *)

Handler(fn, of) == [fn |-> fn, of |-> of]
NoHandler == Handler("undefined", 0)

addEventListener(e, target, type, handler) ==
    LET l == [target |-> target, type |-> type, handler |-> handler]
    IN  IF \E i \in 1..Len(e.listeners) : e.listeners[i] = l THEN e
        ELSE [e EXCEPT !.listeners = Append(@, l)]

removeEventListener(e, target, type, handler) ==
    [e EXCEPT !.listeners =
        SelectSeq(@, LAMBDA l : l # [target |-> target, type |-> type, handler |-> handler])]

_bindDragEvents(e, startEvent, moveEvent, endEvent, kind) ==
    LET h == e._dragHandlers
        e1 == IF h[startEvent] = NoHandler THEN e
              ELSE LET a == removeEventListener(e, "canvas", startEvent, h[startEvent])
                       b == removeEventListener(a, "canvas", moveEvent, h[moveEvent])
                       c == removeEventListener(b, "canvas", endEvent, h[endEvent])
                       d == removeEventListener(c, "canvas", "mouseleave", h.mouseleave)
                   IN  IF h.windowMouseUp # NoHandler
                       THEN removeEventListener(d, "window", "mouseup", h.windowMouseUp)
                       ELSE d
        k == Len(e.bindings) + 1
        e2 == [e1 EXCEPT !.bindings = Append(@, [kind |-> kind, isDragging |-> FALSE])]
        e3 == addEventListener(e2, "canvas", startEvent, Handler("startHandler", k))
        e4 == addEventListener(e3, "canvas", moveEvent, Handler("moveHandler", k))
        e5 == addEventListener(e4, "canvas", endEvent, Handler("endHandler", k))
        e6 == addEventListener(e5, "canvas", "mouseleave", Handler("leaveHandler", k))
    IN  [e6 EXCEPT !._dragHandlers =
            [n \in DOMAIN h |->
                CASE n = startEvent -> Handler("startHandler", k)
                  [] n = moveEvent -> Handler("moveHandler", k)
                  [] n = endEvent -> Handler("endHandler", k)
                  [] n = "mouseleave" -> Handler("leaveHandler", k)
                  [] OTHER -> h[n]]]

_bindTouch(e) ==
    IF ~IsTruthy(e.settings.enableTouch) THEN e
    ELSE _bindDragEvents(e, "touchstart", "touchmove", "touchend", "touch")

_bindMouse(e) == _bindDragEvents(e, "mousedown", "mousemove", "mouseup", "mouse")

_bindOrientation(e) ==
    IF ~IsTruthy(e.settings.enableOrientation) THEN e
    ELSE addEventListener(
             [e EXCEPT !.bindings = Append(@, [kind |-> "orientation", isDragging |-> FALSE])],
             "window", "deviceorientation", Handler("handleOrientation", Len(e.bindings) + 1))

\* the handlers here are what .bind(this) returns at this call, functions the
\* instance keeps no reference to
_attachInteraction(e) ==
    LET e1 == IF IsTruthy(e.settings.enableClick)
              THEN addEventListener(e, "canvas", "click", Handler("_onCanvasClick.bind(this)", 0))
              ELSE e
        e2 == addEventListener(e1, "canvas", "mousemove", Handler("_onCanvasMouseMove.bind(this)", 0))
    IN  addEventListener(e2, "canvas", "mouseleave", Handler("_onCanvasMouseLeave.bind(this)", 0))

RECURSIVE RemoveAll(_, _)
\* removeEventListener for each <<target, type, function of the instance>>
RemoveAll(e, removals) ==
    IF removals = <<>> THEN e
    ELSE RemoveAll(removeEventListener(e, Head(removals)[1], Head(removals)[2],
                                       Handler(Head(removals)[3], 0)),
                   Tail(removals))

destroy(e) ==
    LET e1 == RemoveAll(pause(e),
                  << <<"window", "resize", "this._resize">>,
                     <<"canvas", "touchstart", "this._touchStartHandler">>,
                     <<"canvas", "touchmove", "this._touchMoveHandler">>,
                     <<"canvas", "touchend", "this._bindTouch">>,
                     <<"canvas", "mousedown", "this._bindMouse">>,
                     <<"canvas", "mousemove", "this._onCanvasMouseMove">>,
                     <<"canvas", "mouseup", "this._bindMouse">>,
                     <<"canvas", "mouseleave", "this._onCanvasMouseLeave">>,
                     <<"canvas", "click", "this._onCanvasClick">>,
                     <<"window", "deviceorientation", "this._orientationHandler">>,
                     <<"canvas", "keydown", "this._keyboardHandler">> >>)
    IN  [e1 EXCEPT !.inDocument = FALSE, !.tags = <<>>]

---------------------------------------------------------------------------
(* Options *)

JsNull == [t |-> "object", n |-> 0, s |-> "null"]

setEasingProfile(e, profileName) ==
    IF profileName = JsString("Custom") THEN [e EXCEPT !.settings.easingProfile = profileName]
    ELSE IF profileName.t = "string" /\ profileName.s \in DOMAIN EASING_PROFILES
    THEN [e EXCEPT !.settings.easingProfile = profileName,
                   !.settings.customEaseIn = JsNumber(EASING_PROFILES[profileName.s].easeIn),
                   !.settings.customFriction = JsNumber(EASING_PROFILES[profileName.s].friction)]
    ELSE [e EXCEPT !.logged = Append(@, "Invalid easing profile")]

updateOptions(e, newOptions) ==
    LET given(key) == Given(newOptions, key)
        invalid(key, message, fallback, ok) ==
            [v |-> IF given(key) /\ ~ok THEN fallback ELSE Merge(e.settings, newOptions)[key],
             log |-> IF given(key) /\ ~ok THEN <<message>> ELSE <<>>]
        easing == invalid("easing", "Invalid easing: must be a number", JsNumber(100),
                          newOptions.easing.t = "number")
        speed == invalid("speed", "Invalid speed: must be a ", JsNumber(1000),
                         newOptions.speed.t = "number")
        radius == invalid("radius", "Invalid radius: must be a positive number.", JsNumber(150000),
                          newOptions.radius.t = "number"
                              /\ ~(newOptions.radius # JsNaN /\ newOptions.radius.n <= 0))
        shape == invalid("shape", "Invalid shape", JsString(DEFAULT_SHAPE),
                         newOptions.shape.t = "string" /\ newOptions.shape.s \in validShapes)
        maxVelocity == invalid("maxVelocity", "Invalid maxVelocity: must be a non-negative number.",
                               JsNumber(500),
                               newOptions.maxVelocity.t = "number"
                                   /\ ~(newOptions.maxVelocity # JsNaN
                                            /\ newOptions.maxVelocity.n < 0))
        e1 == [e EXCEPT !.settings = [Merge(e.settings, newOptions) EXCEPT
                                         !.easing = easing.v, !.speed = speed.v,
                                         !.radius = radius.v, !.shape = shape.v,
                                         !.maxVelocity = maxVelocity.v],
                        !.logged = @ \o easing.log \o speed.log \o radius.log \o shape.log
                                     \o maxVelocity.log]
        e2 == IF given("radius") \/ given("shape")
              THEN [e1 EXCEPT !.tags = _positionTags(@)] ELSE e1
        e3 == IF ~given("enableTouch") THEN e2
              ELSE IF IsTruthy(newOptions.enableTouch) THEN _bindTouch(e2)
              ELSE RemoveAll(e2, << <<"canvas", "touchstart", "this._touchStartHandler">>,
                                    <<"canvas", "touchmove", "this._touchMoveHandler">>,
                                    <<"canvas", "touchend", "this._bindTouch">> >>)
        e4 == IF ~given("enableOrientation") THEN e3
              ELSE IF IsTruthy(newOptions.enableOrientation) THEN _bindOrientation(e3)
              ELSE RemoveAll(e3, << <<"window", "deviceorientation", "this._orientationHandler">> >>)
        e5 == IF ~given("enableClick") THEN e4
              ELSE IF IsTruthy(newOptions.enableClick)
              THEN addEventListener(e4, "canvas", "click", Handler("this._clickHandler", 0))
              ELSE removeEventListener(e4, "canvas", "click", Handler("this._clickHandler", 0))
        e6 == IF ~given("paused") THEN e5
              ELSE IF IsTruthy(newOptions.paused) THEN pause(e5) ELSE resume(e5)
        e7 == IF given("easingProfile") THEN setEasingProfile(e6, newOptions.easingProfile) ELSE e6
    IN  [e7 EXCEPT !.settings.autoEasing = IF given("autoEasing") THEN newOptions.autoEasing ELSE @,
                   !.settings.customEaseIn = IF given("customEaseIn") THEN newOptions.customEaseIn ELSE @,
                   !.settings.customFriction =
                       IF given("customFriction") THEN newOptions.customFriction ELSE @,
                   !.settings.minVelocityThreshold =
                       IF given("minVelocityThreshold") THEN newOptions.minVelocityThreshold ELSE @]

---------------------------------------------------------------------------
(* Events of the library: on, off *)

on(e, event, callback) ==
    IF event \in DOMAIN e._events
    THEN [e EXCEPT !._events[event] = Append(@, callback)]
    ELSE e

\* callback is "undefined" when off is called with the event alone
off(e, event, callback) ==
    IF event \notin DOMAIN e._events THEN e
    ELSE IF callback = "undefined" THEN [e EXCEPT !._events[event] = <<>>]
    ELSE [e EXCEPT !._events[event] = SelectSeq(@, LAMBDA cb : cb # callback)]

---------------------------------------------------------------------------
(* The handlers of the DOM events.  A pointer event says which tags' boxes hold
   its point (over, by index), the unit vector from the centre to it (ux, uy,
   thousandths; 0, 0 at the centre) and how far it moved since the last
   position the drag closures saw (dx, dy, pixels). *)

null == -1

\* an event object: the fields each handler reads
Event(over, ux, uy, dx, dy) ==
    [over |-> over, ux |-> ux, uy |-> uy, dx |-> dx, dy |-> dy, key |-> "",
     gamma |-> 0, beta |-> 0, throttled |-> FALSE]
NoDetail == Event({}, 0, 0, 0, 0)
Key(key) == [NoDetail EXCEPT !.key = key]

\* the index in e.tags of the tag _getTagAt returns, 0 for null
_getTagAt(e, pt) ==
    LET hit == {i \in 1..Len(e.tags) : e.tags[i]._screen = Box /\ (i - 1) \in pt.over}
    IN  IF hit = {} THEN 0 ELSE CHOOSE i \in hit : \A j \in hit : j <= i

\* prev._scale = 1; prev._color = prev.color; prev._opacity = 1; tagLeave; with
\* prev undefined the first assignment raises a TypeError
Leave(e) ==
    LET h == e._hoveredIndex + 1
    IN  IF h \notin 1..Len(e.tags) THEN [e EXCEPT !.raised = Append(@, "TypeError")]
        ELSE Emit([e EXCEPT !.tags[h]._scale = "1", !.tags[h]._color = e.tags[h].color,
                            !.tags[h]._opacity = "1"],
                  "tagLeave", e._hoveredIndex)

_onCanvasMouseLeave(e) ==
    IF e._hoveredIndex = null THEN e
    ELSE LET e1 == Leave(e)
         IN  IF e1.raised # e.raised THEN e1 ELSE [e1 EXCEPT !._hoveredIndex = null]

_onCanvasMouseMove(e, pt) ==
    LET t == _getTagAt(e, pt)
    IN  IF t # 0 /\ e.tags[t].index # e._hoveredIndex
        THEN LET e1 == IF e._hoveredIndex # null THEN Leave(e) ELSE e
                 e2 == [e1 EXCEPT !._hoveredIndex = e.tags[t].index]
                 e3 == IF IsTruthy(e.settings.hoverEffect)
                       THEN [e2 EXCEPT !.tags[t]._scale = HoverScale,
                                       !.tags[t]._color = HoverColor,
                                       !.tags[t]._opacity = "1"]
                       ELSE e2
             IN  IF e1.raised # e.raised THEN e1 ELSE Emit(e3, "tagHover", e.tags[t].index)
        ELSE IF t = 0 /\ e._hoveredIndex # null THEN _onCanvasMouseLeave(e)
        ELSE e

\* the callback of the 200 ms timer of _onCanvasClick: tag._scale = hoverScale
timeout(e) ==
    [e EXCEPT !.timers = Tail(@), !.tags[Head(e.timers).tag]._scale = HoverScale]

\* the timer holds its tag, here the place of the tag in this.tags (tags are
\* added only while a timer waits), and for the observer the scale the tag had
\* when the click came
_onCanvasClick(e, pt) ==
    LET t == _getTagAt(e, pt)
        st == e.settings
        e1 == IF t # 0 /\ IsTruthy(st.clickEffect)
              THEN [e EXCEPT !.tags[t]._scale = ClickScale,
                             !.timers = Append(@, [tag |-> t, was |-> e.tags[t]._scale])]
              ELSE e
        velocityMagnitude == IF st.maxVelocity.n > 0 THEN Mul(st.maxVelocity.n, 200)
                             ELSE Mul(st.speed.n, 100)
        or(v) == IF v = 0 THEN Mul(st.speed.n, 100) ELSE v
    IN  [e1 EXCEPT !.velocity = [x |-> or(-Mul(pt.uy, velocityMagnitude)),
                                 y |-> or(-Mul(pt.ux, velocityMagnitude))]]

_onKeyboard(e, key) ==
    CASE key = "ArrowLeft" -> [e EXCEPT !.rotation.y = @ - 100]
      [] key = "ArrowRight" -> [e EXCEPT !.rotation.y = @ + 100]
      [] key = "ArrowUp" -> [e EXCEPT !.rotation.x = @ - 100]
      [] key = "ArrowDown" -> [e EXCEPT !.rotation.x = @ + 100]
      [] key \in {"Home", "End"} -> [e EXCEPT !.rotation = [x |-> 0, y |-> 0]]
      [] key \in {" ", "Spacebar"} -> IF IsTruthy(e.settings.paused) THEN resume(e) ELSE pause(e)
      [] OTHER -> e

startHandler(e, k) ==
    IF ~IsTruthy(e.settings.enableDrag) THEN e
    ELSE LET e1 == [e EXCEPT !.bindings[k].isDragging = TRUE,
                             !.velocity = IF @.x = 0 /\ @.y = 0
                                          THEN [x |-> e.settings.speed.n, y |-> e.settings.speed.n]
                                          ELSE @]
         IN  IF e.bindings[k].kind = "mouse"
             THEN [addEventListener(e1, "window", "mouseup", Handler("endHandler", k))
                      EXCEPT !._dragHandlers.windowMouseUp = Handler("endHandler", k)]
             ELSE e1

moveHandler(e, k, pt) ==
    IF ~IsTruthy(e.settings.enableDrag) \/ ~e.bindings[k].isDragging THEN e
    ELSE LET st == e.settings
             sens == IF IsTruthy(st.dragSensitivity) THEN st.dragSensitivity.n ELSE 1000
             dx == pt.dx * sens
             dy == pt.dy * sens
             capped(v) == IF st.maxVelocity.n > 0
                          THEN MathMin(MathMax(v, -st.maxVelocity.n), st.maxVelocity.n)
                          ELSE v
         IN  [e EXCEPT !.velocity = [x |-> capped(Mul(dy, st.speed.n)),
                                     y |-> capped(Mul(dx, st.speed.n))]]

endHandler(e, k) ==
    IF ~IsTruthy(e.settings.enableDrag) THEN e
    ELSE _applyDragEasing([e EXCEPT !.bindings[k].isDragging = FALSE])

leaveHandler(e, k) ==
    IF ~IsTruthy(e.settings.enableDrag) \/ ~e.bindings[k].isDragging THEN e
    ELSE _applyDragEasing([e EXCEPT !.bindings[k].isDragging = FALSE])

\* gamma and beta in degrees; 0.0005 of a degree is half a thousandth
handleOrientation(e, ev) ==
    IF ev.throttled THEN e
    ELSE [e EXCEPT !.velocity = [x |-> Mul(ev.gamma, 500), y |-> Mul(ev.beta, 500)]]

\* the call of one attached handler with the event (for a mousemove and a
\* resize, of the function behind the throttle: the event stands for a sample
\* the throttle lets through; the throttle itself is Throttle below)
Handle(e, handler, ev) ==
    CASE handler.fn = "startHandler" -> startHandler(e, handler.of)
      [] handler.fn = "moveHandler" -> moveHandler(e, handler.of, ev)
      [] handler.fn = "endHandler" -> endHandler(e, handler.of)
      [] handler.fn = "leaveHandler" -> leaveHandler(e, handler.of)
      [] handler.fn = "handleOrientation" -> handleOrientation(e, ev)
      [] handler.fn \in {"_onCanvasClick.bind(this)", "this._clickHandler"} -> _onCanvasClick(e, ev)
      [] handler.fn = "_onCanvasMouseMove.bind(this)" -> _onCanvasMouseMove(e, ev)
      [] handler.fn = "_onCanvasMouseLeave.bind(this)" -> _onCanvasMouseLeave(e)
      [] handler.fn = "this._keyboardHandler" -> _onKeyboard(e, ev.key)
      [] handler.fn = "this._resize" -> [e EXCEPT !.tags = _positionTags(@)]
      [] OTHER -> e

RECURSIVE Deliver(_, _, _)
Deliver(e, ls, ev) ==
    IF ls = <<>> THEN e
    ELSE CHOOSE after \in
             {Deliver(next, Tail(ls), ev) :
                  next \in {Handle([e EXCEPT !.ran = Append(@, Head(ls).handler.fn)],
                                   Head(ls).handler, ev)}} : TRUE

\* the listeners an event of this type on this target reaches: the target's
\* own, then, for an event on the canvas, the window's as it bubbles
Reached(e, target, type) ==
    SelectSeq(e.listeners, LAMBDA l : l.target = target /\ l.type = type)
        \o IF target = "canvas"
           THEN SelectSeq(e.listeners, LAMBDA l : l.target = "window" /\ l.type = type)
           ELSE <<>>

dispatchEvent(e, target, type, ev) == Deliver(e, Reached(e, target, type), ev)

---------------------------------------------------------------------------
(* Throttle.  e.throttle holds the clock (now, what Date.now() returns, in
   units of 50 ms), the timeouts the closures of _throttle have set and, per
   throttled function, lastRan and lastFunc of its closure (0 for undefined)
   and, for the observer, the arguments of its latest call (called) and of the
   latest execution of the wrapped function (ran), the calls since that
   execution (burst) and the calls that execution stood for (coalesced). *)

\* this._resize = this._throttle(..., 200); this._onCanvasMouseMove =
\* this._throttle(..., 50)
limit == [_resize |-> 4, _onCanvasMouseMove |-> 1]

func == [_resize |-> Handler("this._resize", 0),
         _onCanvasMouseMove |-> Handler("_onCanvasMouseMove.bind(this)", 0)]

\* the id setTimeout returns: one that no timeout waiting has and no closure
\* still holds in lastFunc
TimeoutId(t) ==
    CHOOSE id \in 1..(Len(t.timeouts) + Cardinality(DOMAIN t.of) + 1) :
        /\ \A i \in 1..Len(t.timeouts) : t.timeouts[i].id # id
        /\ \A fn \in DOMAIN t.of : t.of[fn].lastFunc # id

clearTimeout(t, id) == [t EXCEPT !.timeouts = SelectSeq(@, LAMBDA w : w.id # id)]

\* func.apply(context, args); lastRan = Date.now()
apply(e, fn, args) ==
    [Handle(e, func[fn], args) EXCEPT
        !.throttle.of[fn].lastRan = e.throttle.now,
        !.throttle.of[fn].ran = {args},
        !.throttle.of[fn].coalesced = e.throttle.of[fn].burst,
        !.throttle.of[fn].burst = 0]

\* a throttled call that sets no timeout: calls after the first are dropped
throttled_Dropping(e, fn, args) ==
    LET e1 == [e EXCEPT !.throttle.of[fn].called = {args}, !.throttle.of[fn].burst = @ + 1]
    IN  IF e.throttle.of[fn].lastRan = 0 THEN apply(e1, fn, args) ELSE e1

\* the function _throttle returns, called with args
throttled(e, fn, args) ==
    LET e1 == [e EXCEPT !.throttle.of[fn].called = {args}, !.throttle.of[fn].burst = @ + 1]
        t == e1.throttle
    IN  IF t.of[fn].lastRan = 0 THEN apply(e1, fn, args)
        ELSE LET cleared == clearTimeout(t, t.of[fn].lastFunc)
                 id == TimeoutId(cleared)
                 delay == MathMax(0, limit[fn] - (t.now - t.of[fn].lastRan))
             IN  [e1 EXCEPT !.throttle =
                     [cleared EXCEPT !.timeouts = Append(@, [id |-> id, fn |-> fn, args |-> args,
                                                            due |-> t.now + delay]),
                                     !.of[fn].lastFunc = id]]

\* the callback of the timeout w of a throttled call
delayed(e, w) ==
    LET e1 == [e EXCEPT !.throttle = clearTimeout(@, w.id)]
    IN  IF e.throttle.now - e.throttle.of[w.fn].lastRan >= limit[w.fn]
        THEN apply(e1, w.fn, w.args)
        ELSE e1

---------------------------------------------------------------------------
(* The constructor *)

\* the closures of _throttle as _init makes them, and the clock
Unthrottled ==
    [now |-> 1, timeouts |-> <<>>,
     of |-> [fn \in {"_resize", "_onCanvasMouseMove"} |->
                [lastRan |-> 0, lastFunc |-> 0, called |-> {}, ran |-> {}, burst |-> 0,
                 coalesced |-> 0]]]

\* the instance before the constructor has assigned anything
Blank ==
    [settings |-> DefaultSettings, velocity |-> [x |-> 0, y |-> 0],
     rotation |-> [x |-> 0, y |-> 0], animFrame |-> 0, frames |-> <<>>, timers |-> <<>>,
     throttle |-> Unthrottled, listeners |-> <<>>,
     bindings |-> <<>>,
     _dragHandlers |-> [n \in {"touchstart", "touchmove", "touchend", "mousedown", "mousemove",
                               "mouseup", "mouseleave", "windowMouseUp"} |-> NoHandler],
     _events |-> [tagClick |-> <<>>, tagHover |-> <<>>, tagLeave |-> <<>>],
     _hoveredIndex |-> null, inDocument |-> TRUE, tags |-> <<>>,
     ran |-> <<>>, emitted |-> <<>>, logged |-> <<>>, raised |-> <<>>, registered |-> {}]

_init(e) ==
    LET e1 == addEventListener(e, "window", "resize", Handler("this._resize", 0))
        e2 == _attachInteraction(_bindOrientation(_bindMouse(_bindTouch(e1))))
        e3 == addEventListener(e2, "canvas", "keydown", Handler("this._keyboardHandler", 0))
        resized == throttled(e3, "_resize", NoDetail)
    IN  _animate([resized EXCEPT !.tags = _positionTags(@)])

constructor(options) ==
    LET merged == Merge(DefaultSettings, options)
        spin == IF IsTruthy(merged.autoSpin) THEN merged.speed.n ELSE 0
    IN  _init([Blank EXCEPT !.settings = [merged EXCEPT !.easing = Clamp(merged.easing, 10, 500),
                                                         !.speed = Clamp(merged.speed, 1, 5000)],
                            !.velocity = [x |-> spin, y |-> spin]])

\* the instance as the variables hold it, at the start of a step
This ==
    [settings |-> settings, velocity |-> velocity, rotation |-> rotation,
     animFrame |-> animFrame, frames |-> frames, timers |-> timers, throttle |-> throttle,
     listeners |-> listeners,
     bindings |-> bindings, _dragHandlers |-> _dragHandlers, _events |-> _events,
     _hoveredIndex |-> _hoveredIndex, inDocument |-> inDocument, tags |-> tags,
     ran |-> <<>>, emitted |-> <<>>, logged |-> <<>>, raised |-> <<>>,
     registered |-> watch.registered]

\* what the step ran, invoked, logged and raised, and the <<event, callback>>
\* pairs the caller has registered with on() and not taken back with off()
Watched(e) ==
    [ran |-> e.ran, emitted |-> e.emitted, logged |-> e.logged, raised |-> e.raised,
     registered |-> e.registered]

\* the engine variables hold the instance e, and the scene is empty
Holds(e) ==
    /\ scene = [tags |-> <<>>, sortedTags |-> <<>>]
    /\ settings = e.settings /\ velocity = e.velocity /\ rotation = e.rotation
    /\ animFrame = e.animFrame /\ frames = e.frames /\ timers = e.timers
    /\ throttle = e.throttle
    /\ listeners = e.listeners
    /\ bindings = e.bindings /\ _dragHandlers = e._dragHandlers /\ _events = e._events
    /\ _hoveredIndex = e._hoveredIndex /\ inDocument = e.inDocument
    /\ watch = Watched(e)

\* a step of the engine ends with the instance e
Becomes(e) ==
    /\ settings' = e.settings /\ velocity' = e.velocity /\ rotation' = e.rotation
    /\ animFrame' = e.animFrame /\ frames' = e.frames /\ timers' = e.timers
    /\ throttle' = e.throttle
    /\ listeners' = e.listeners
    /\ bindings' = e.bindings /\ _dragHandlers' = e._dragHandlers /\ _events' = e._events
    /\ _hoveredIndex' = e._hoveredIndex /\ inDocument' = e.inDocument
    /\ watch' = Watched(e)
    /\ tags' = e.tags

---------------------------------------------------------------------------
(* The state after new Orbity(canvas, options) *)

Init ==
    /\ tags = <<>>
    /\ undoStack = <<>>
    /\ redoStack = <<>>
    /\ last = Call("constructor", "ok")
    /\ linear = Linear(<<>>)
    /\ heap = EmptyHeap
    /\ Holds(constructor(Options(<<>>)))

---------------------------------------------------------------------------
(* The public operations of the tag store *)

setTags(dataArray) ==
    /\ tags' = _draw(_positionTags(_reindexTags(
                   [i \in 1..Len(dataArray) |-> NewTag(dataArray[i], i - 1)])))
    /\ UNCHANGED <<undoStack, redoStack>>
    /\ last' = Call("setTags", "ok")
    /\ linear' = AfterReplace

\* a push that keeps the redo stack
PushHistory_KeepsRedo(entry) ==
    /\ undoStack' = Append(undoStack, entry)
    /\ redoStack' = redoStack

\* this.undoStack.push(entry); this.redoStack = []
PushHistory(entry) ==
    /\ undoStack' = Append(undoStack, entry)
    /\ redoStack' = <<>>

addTag(tagData) ==
    IF ~_validateTag(tagData)
    THEN /\ last' = Call("addTag", _validateTagError(tagData))
         /\ UNCHANGED <<tags, undoStack, redoStack, linear>>
    ELSE LET newTag == NewTag(tagData, Len(tags))
         IN  /\ Len(tags) < MaxTags
             /\ Len(undoStack) < MaxHist
             /\ tags' = _positionTags(_reindexTags(Append(tags, newTag)))
             /\ PushHistory(AddEntry(newTag))
             /\ last' = Edit("addTag")
             /\ linear' = AfterEdit

\* the guard with its upper comparison off by one
removeTagReturns_OffByOne(index, length) == index < 0 \/ index > length

\* if (index < 0 || index >= this.tags.length) return
removeTagReturns(index, length) == index < 0 \/ index >= length

removeTag(index) ==
    IF removeTagReturns(index, Len(tags))
    THEN /\ last' = Call("removeTag", "returned")
         /\ UNCHANGED <<tags, undoStack, redoStack, linear>>
    ELSE LET removedTag == At(tags, index, NoTag)
         IN  /\ Len(undoStack) < MaxHist
             /\ tags' = _positionTags(_reindexTags(SpliceRemove(tags, index)))
             /\ PushHistory(RemoveEntry(removedTag, index))
             /\ last' = Edit("removeTag")
             /\ linear' = AfterEdit

updateTag(index, data) ==
    IF ~(index + 1 \in DOMAIN tags)
    THEN /\ last' = Call("updateTag", "Tag at index does not exist.")
         /\ UNCHANGED <<tags, undoStack, redoStack, linear>>
    ELSE LET oldData == tags[index + 1]
             overrides == [_scale |-> "1",
                           _color |-> Or(data.color, oldData.color),
                           _opacity |-> "1"]
             newData == ObjectAssign(ObjectAssign(oldData, data), overrides)
         IN  /\ Len(undoStack) < MaxHist
             /\ tags' = _positionTags(_reindexTags([tags EXCEPT ![index + 1] = newData]))
             /\ PushHistory(UpdateEntry(oldData, newData))
             /\ last' = Edit("updateTag")
             /\ linear' = AfterEdit

\* Object.assign(this.tags[i], src) raises a TypeError when this.tags[i] is undefined
AssignThrows(ts, i) == ~(i + 1 \in DOMAIN ts)

\* the switch of undo(): the inverse of the entry, applied to the collection
undoApply(lastAction, ts) ==
    CASE lastAction.action = "add" -> Pop(ts)
      [] lastAction.action = "remove" -> SpliceInsert(ts, lastAction.index, lastAction.tag)
      [] lastAction.action = "update" ->
           [ts EXCEPT ![lastAction.oldData.index + 1] = ObjectAssign(@, lastAction.oldData)]

\* a redo() whose update case assigns oldData in place of newData
redoApply_AssignsOldData(lastAction, ts) ==
    CASE lastAction.action = "add" -> Append(ts, lastAction.tag)
      [] lastAction.action = "remove" -> SpliceRemove(ts, lastAction.index)
      [] lastAction.action = "update" ->
           [ts EXCEPT ![lastAction.newData.index + 1] = ObjectAssign(@, lastAction.oldData)]

\* the switch of redo(): the entry, applied again
redoApply(lastAction, ts) ==
    CASE lastAction.action = "add" -> Append(ts, lastAction.tag)
      [] lastAction.action = "remove" -> SpliceRemove(ts, lastAction.index)
      [] lastAction.action = "update" ->
           [ts EXCEPT ![lastAction.newData.index + 1] = ObjectAssign(@, lastAction.newData)]

\* when the switch raises, the stacks have been changed already and the
\* reindexing and the layout after the switch are not reached
undo ==
    IF Len(undoStack) = 0
    THEN /\ last' = Call("undo", "returned")
         /\ UNCHANGED <<tags, undoStack, redoStack, linear>>
    ELSE LET lastAction == undoStack[Len(undoStack)]
             throws == /\ lastAction.action = "update"
                       /\ AssignThrows(tags, lastAction.oldData.index)
         IN  /\ lastAction.action = "remove" => Len(tags) < MaxTags
             /\ undoStack' = Pop(undoStack)
             /\ redoStack' = Append(redoStack, lastAction)
             /\ linear' = AfterUndo
             /\ IF throws
                THEN /\ tags' = tags
                     /\ last' = Call("undo", "TypeError")
                ELSE /\ tags' = _positionTags(_reindexTags(undoApply(lastAction, tags)))
                     /\ last' = Call("undo", "ok")

redo ==
    IF Len(redoStack) = 0
    THEN /\ last' = Call("redo", "returned")
         /\ UNCHANGED <<tags, undoStack, redoStack, linear>>
    ELSE LET lastAction == redoStack[Len(redoStack)]
             throws == /\ lastAction.action = "update"
                       /\ AssignThrows(tags, lastAction.newData.index)
         IN  /\ lastAction.action = "add" => Len(tags) < MaxTags
             /\ redoStack' = Pop(redoStack)
             /\ undoStack' = Append(undoStack, lastAction)
             /\ linear' = AfterRedo
             /\ IF throws
                THEN /\ tags' = tags
                     /\ last' = Call("redo", "TypeError")
                ELSE /\ tags' = _positionTags(_reindexTags(redoApply(lastAction, tags)))
                     /\ last' = Call("redo", "ok")

clearTags ==
    /\ tags' = _positionTags(_reindexTags(<<>>))
    /\ UNCHANGED <<undoStack, redoStack>>
    /\ last' = Call("clearTags", "ok")
    /\ linear' = AfterReplace

NoHistory == Len(undoStack) = 0 /\ Len(redoStack) = 0

\* a step of the tag store leaves everything else as it is
StoreOnly == UNCHANGED <<heap, engine, scene>>

\* an editing session: the collection is set or cleared while no history entry
\* exists, and edited, undone and redone from then on
Next ==
    \/ StoreOnly /\ NoHistory /\ \E dataArray \in SetTagsInputs : setTags(dataArray)
    \/ StoreOnly /\ \E tagData \in TagInputs : addTag(tagData)
    \/ StoreOnly /\ \E index \in IndexInputs : removeTag(index)
    \/ StoreOnly /\ \E index \in IndexInputs, data \in PartialInputs : updateTag(index, data)
    \/ StoreOnly /\ undo
    \/ StoreOnly /\ redo
    \/ StoreOnly /\ NoHistory /\ clearTags

Spec == Init /\ [][Next]_vars

\* the collection is set or cleared at any time, also over a history that
\* still holds entries; the calls made are the ones that are accepted
NextReplace ==
    \/ StoreOnly /\ \E dataArray \in SetTagsInputs : setTags(dataArray)
    \/ StoreOnly /\ \E tagData \in {PlainA, SizedB} : addTag(tagData)
    \/ StoreOnly /\ \E index \in 0..(MaxTags - 1) : removeTag(index)
    \/ StoreOnly /\ \E index \in 0..(MaxTags - 1), data \in PartialInputs : updateTag(index, data)
    \/ StoreOnly /\ undo
    \/ StoreOnly /\ redo
    \/ StoreOnly /\ clearTags

SpecReplace == Init /\ [][NextReplace]_vars

---------------------------------------------------------------------------
(* The same operations on objects: what each one allocates, and which object
   each assignment goes to *)

addTagObjects(tagData) ==
    LET newTag == NewRef(heap)
        h1 == ObjectLiteral(heap, NewTag(tagData, Len(heap.tags)))
        h2 == [h1 EXCEPT !.tags = Append(@, newTag)]
        copy == SpreadRef(h2, newTag)
        h3 == Spread(h2, newTag)
    IN  /\ _validateTag(tagData)
        /\ Len(heap.tags) < MaxTags
        /\ Len(heap.undoStack) < MaxHist
        /\ heap' = Settle([h3 EXCEPT
                       !.undoStack = Append(@, RefEntry("add", copy, -1, NoRef, NoRef)),
                       !.redoStack = <<>>])
        /\ last' = Call("addTag", "ok")

removeTagObjects(index) ==
    LET removedTag == heap.tags[index + 1]
        h1 == [heap EXCEPT !.tags = SpliceRemove(@, index)]
        copy == SpreadRef(h1, removedTag)
        h2 == Spread(h1, removedTag)
    IN  /\ ~removeTagReturns(index, Len(heap.tags))
        /\ Len(heap.undoStack) < MaxHist
        /\ heap' = Settle([h2 EXCEPT
                       !.undoStack = Append(@, RefEntry("remove", copy, index, NoRef, NoRef)),
                       !.redoStack = <<>>])
        /\ last' = Call("removeTag", "ok")

updateTagObjects(index, data) ==
    LET tag == heap.tags[index + 1]
        oldData == SpreadRef(heap, tag)
        h1 == Spread(heap, tag)
        overrides == [_scale |-> "1",
                      _color |-> Or(data.color, heap.objects[tag].color),
                      _opacity |-> "1"]
        h2 == [h1 EXCEPT !.objects[tag] = ObjectAssign(ObjectAssign(@, data), overrides)]
        newData == SpreadRef(h2, tag)
        h3 == Spread(h2, tag)
    IN  /\ index + 1 \in DOMAIN heap.tags
        /\ Len(heap.undoStack) < MaxHist
        /\ heap' = Settle([h3 EXCEPT
                       !.undoStack = Append(@, RefEntry("update", NoRef, -1, oldData, newData)),
                       !.redoStack = <<>>])
        /\ last' = Call("updateTag", "ok")

undoObjects ==
    LET lastAction == heap.undoStack[Len(heap.undoStack)]
        h1 == [heap EXCEPT !.undoStack = Pop(@), !.redoStack = Append(@, lastAction)]
        copy == SpreadRef(h1, lastAction.tag)
        at == h1.objects[lastAction.oldData].index
    IN  /\ Len(heap.undoStack) > 0
        /\ lastAction.action = "remove" => Len(heap.tags) < MaxTags
        /\ last' = Call("undo", "ok")
        /\ heap' = Settle(
             CASE lastAction.action = "add" -> [h1 EXCEPT !.tags = Pop(@)]
               [] lastAction.action = "remove" ->
                    [Spread(h1, lastAction.tag) EXCEPT
                        !.tags = SpliceInsert(@, lastAction.index, copy)]
               [] lastAction.action = "update" ->
                    [h1 EXCEPT !.objects[h1.tags[at + 1]] =
                                   ObjectAssign(@, h1.objects[lastAction.oldData])])

redoObjects ==
    LET lastAction == heap.redoStack[Len(heap.redoStack)]
        h1 == [heap EXCEPT !.redoStack = Pop(@), !.undoStack = Append(@, lastAction)]
        copy == SpreadRef(h1, lastAction.tag)
        at == h1.objects[lastAction.newData].index
    IN  /\ Len(heap.redoStack) > 0
        /\ lastAction.action = "add" => Len(heap.tags) < MaxTags
        /\ last' = Call("redo", "ok")
        /\ heap' = Settle(
             CASE lastAction.action = "add" ->
                    [Spread(h1, lastAction.tag) EXCEPT !.tags = Append(@, copy)]
               [] lastAction.action = "remove" ->
                    [h1 EXCEPT !.tags = SpliceRemove(@, lastAction.index)]
               [] lastAction.action = "update" ->
                    [h1 EXCEPT !.objects[h1.tags[at + 1]] =
                                   ObjectAssign(@, h1.objects[lastAction.newData])])

\* the pointer comes over the live tag at index: the hover presentation
hoverObjects(index) ==
    /\ index + 1 \in DOMAIN heap.tags
    /\ heap' = AssignFields(heap, heap.tags[index + 1],
                   [_scale |-> HoverScale, _color |-> HoverColor, _opacity |-> "1"])
    /\ last' = Call("mousemove", "ok")

\* the pointer leaves it: the presentation is reset
leaveObjects(index) ==
    /\ index + 1 \in DOMAIN heap.tags
    /\ heap' = AssignFields(heap, heap.tags[index + 1],
                   [_scale |-> "1", _color |-> heap.objects[heap.tags[index + 1]].color,
                    _opacity |-> "1"])
    /\ last' = Call("mouseleave", "ok")

\* a click on the live tag at index: the click presentation (the timer of the
\* click writes _scale of this same object later, never of a copy in an entry)
clickObjects(index) ==
    /\ index + 1 \in DOMAIN heap.tags
    /\ heap' = AssignFields(heap, heap.tags[index + 1], [_scale |-> ClickScale])
    /\ last' = Call("click", "ok")

\* a tick: every live tag gets its rotated x, y, z, and the draw pass its box
animateObjects ==
    /\ Len(heap.tags) > 0
    /\ heap' = AssignLive(heap, [pos |-> Turned, _screen |-> Box])
    /\ last' = Call("frame", "ok")

\* a step on the objects leaves everything else as it is
ObjectsOnly == UNCHANGED <<tags, undoStack, redoStack, linear, engine, scene>>

NextObjects ==
    \/ ObjectsOnly /\ \E tagData \in {PlainA} : addTagObjects(tagData)
    \/ ObjectsOnly /\ \E index \in 0..(MaxTags - 1) : removeTagObjects(index)
    \/ ObjectsOnly /\ \E index \in 0..(MaxTags - 1), data \in PartialInputs :
                          updateTagObjects(index, data)
    \/ ObjectsOnly /\ undoObjects
    \/ ObjectsOnly /\ redoObjects
    \/ ObjectsOnly /\ \E index \in 0..(MaxTags - 1) : hoverObjects(index)
    \/ ObjectsOnly /\ \E index \in 0..(MaxTags - 1) : leaveObjects(index)
    \/ ObjectsOnly /\ \E index \in 0..(MaxTags - 1) : clickObjects(index)
    \/ ObjectsOnly /\ animateObjects

SpecObjects == Init /\ [][NextObjects]_vars

---------------------------------------------------------------------------
(* What the claims speak of *)

Edits == {"addTag", "removeTag", "updateTag"}
Store == <<tags, undoStack, redoStack>>
Raised(call) == call.outcome = "TypeError"
Top(s) == s[Len(s)]

\* '#' followed by exactly n hexadecimal digits
IsHexColor(c, n) ==
    /\ c.t = "string"
    /\ Len(c.v) = n + 1
    /\ c.v[1] = "#"
    /\ \A i \in 2..(n + 1) :
          c.v[i] \in {"0", "1", "2", "3", "4", "5", "6", "7", "8", "9"}
                       \cup {"a", "b", "c", "d", "e", "f"} \cup {"A", "B", "C", "D", "E", "F"}

IsNonEmptyString(x) == x.t = "string" /\ Len(x.v) > 0

\* the list without its element at 0-based position i
Without(list, i) == [j \in 1..(Len(list) - 1) |-> IF j <= i THEN list[j] ELSE list[j + 1]]

(* C1: addTag, removeTag or updateTag followed at once by undo() leaves the
   collection with exactly the ordered tag contents it had before the call. *)
C1_UndoRestoresContents ==
    [][(last.op \in Edits /\ last.outcome = "ok" /\ last'.op = "undo")
          => Contents(tags') = last.before]_vars

(* C2: while the history is linear, the redo() that redoes the last undone
   entry brings the collection back, tag for tag and in order, to the
   contents it had before the first of the undos; and undo() right after a
   removeTag puts the removed tag back at its index. *)
C2_RedoRestoresContents ==
    [][/\ (last'.op = "redo" /\ Len(redoStack) = 1 /\ linear.clean)
            => /\ last'.outcome = "ok"
               /\ Contents(tags') = linear.before
       /\ (last.op = "removeTag" /\ last.outcome = "ok" /\ last'.op = "undo")
            => Contents(tags') = last.before]_vars

C2_Witness ==
    /\ last.op = "redo" /\ last.outcome = "ok"
    /\ linear.clean
    /\ Len(undoStack) = 2 /\ Len(redoStack) = 0
    /\ Top(undoStack).action = "remove"
    /\ undoStack[1].action = "update"

(* C3: an accepted addTag, removeTag or updateTag pushes exactly one entry, of
   its own kind, onto the undo stack and leaves the redo stack empty. *)
C3_EditPushesOneEntry ==
    [][(last'.op \in Edits /\ last'.outcome = "ok")
          => /\ Len(undoStack') = Len(undoStack) + 1
             /\ SubSeq(undoStack', 1, Len(undoStack)) = undoStack
             /\ Top(undoStack').action =
                    (CASE last'.op = "addTag" -> "add"
                       [] last'.op = "removeTag" -> "remove"
                       [] last'.op = "updateTag" -> "update")
             /\ redoStack' = <<>>]_vars

C3_Witness ==
    /\ last.op \in Edits /\ last.outcome = "ok"
    /\ last.dropped > 0
    /\ Len(undoStack) > 0 /\ Len(redoStack) = 0

(* C4: right after setTags both history stacks are empty. *)
C4_SetTagsDiscardsHistory ==
    last.op = "setTags" => (undoStack = <<>> /\ redoStack = <<>>)

(* C5: after every operation each tag's index is its 0-based position. *)
C5_IndexIsPosition ==
    \A i \in 1..Len(tags) : tags[i].index = i - 1

C5_Witness ==
    /\ last.op = "undo" /\ last.outcome = "ok"
    /\ Len(redoStack) > 0 /\ Top(redoStack).action = "remove"
    /\ Top(redoStack).index = 0
    /\ ~linear.clean
    /\ Len(tags) = 2

(* C6: addTag of a tag whose text is missing, empty or no string, or whose
   colour is missing or is not '#' and six hex digits, changes neither the
   collection nor the stacks and raises nothing. *)
C6_InvalidAddIsNoOp ==
    [][\A d \in TagInputs :
          (/\ last'.op = "addTag"
           /\ ~IsNonEmptyString(d.text) \/ ~IsHexColor(d.color, 6)
           /\ addTag(d))
             => (UNCHANGED Store /\ ~Raised(last'))]_vars

C6_Witness ==
    /\ last.op = "addTag"
    /\ last.outcome = "Invalid tag: 'color' must be a valid hex color code."
    /\ Len(tags) > 0 /\ Len(undoStack) > 0 /\ Len(redoStack) > 0

(* C7: addTag of a tag with a non-empty text and a colour of three or six hex
   digits appends it: the length grows by one and the last tag has its text. *)
C7_AddAppends ==
    [][\A d \in TagInputs :
          (/\ last'.op = "addTag"
           /\ IsNonEmptyString(d.text)
           /\ IsHexColor(d.color, 3) \/ IsHexColor(d.color, 6)
           /\ addTag(d))
             => /\ Len(tags') = Len(tags) + 1
                /\ Top(tags').text = d.text]_vars

(* C8: removeTag and updateTag with an index outside 0..length-1 change
   neither the collection nor the stacks and raise nothing. *)
C8_BadIndexIsNoOp ==
    [][\A i \in IndexInputs :
          (i < 0 \/ i > Len(tags) - 1)
             => /\ (last'.op = "removeTag" /\ removeTag(i))
                      => (UNCHANGED Store /\ ~Raised(last'))
                /\ \A p \in PartialInputs :
                      (last'.op = "updateTag" /\ updateTag(i, p))
                         => (UNCHANGED Store /\ ~Raised(last'))]_vars

C8_Witness ==
    /\ last.op = "removeTag" /\ last.outcome = "returned"
    /\ Len(tags) > 0 /\ Len(undoStack) > 0 /\ Len(redoStack) > 0

(* C9: removeTag(i) with i in range removes exactly the tag at position i: the
   others keep their contents and their order. *)
C9_RemoveTakesOutOne ==
    [][\A i \in 0..(Len(tags) - 1) :
          (last'.op = "removeTag" /\ removeTag(i))
             => Contents(tags') = Without(Contents(tags), i)]_vars

C9_Witness ==
    /\ last.op = "removeTag" /\ last.outcome = "ok"
    /\ Top(undoStack).index = 0
    /\ Len(last.before) = 2 /\ last.before[1] # last.before[2]
    /\ Len(tags) = 1

(* C10: updateTag(i, partial) on an existing index gives tag i the partial's
   fields and leaves its other content fields, the other tags and the length
   and order of the collection as they were. *)
C10_UpdateSetsNamedFields ==
    [][\A i \in 0..(Len(tags) - 1), p \in PartialInputs :
          (last'.op = "updateTag" /\ updateTag(i, p))
             => /\ Len(tags') = Len(tags)
                /\ \A j \in 1..Len(tags) :
                      j # i + 1 => Content(tags'[j]) = Content(tags[j])
                /\ \A f \in ContentFields :
                      tags'[i + 1][f] = IF p[f] # undefined THEN p[f] ELSE tags[i + 1][f]]_vars

C10_Witness ==
    /\ last.op = "updateTag" /\ last.outcome = "ok"
    /\ Len(tags) = 2
    /\ Contents(tags) # last.before
    /\ tags[1].fontSize = undefined /\ tags[2].fontSize = Size20
    /\ last.before[2].fontSize = undefined

---------------------------------------------------------------------------
(* Options given to the constructor and to updateOptions *)

\* a step of the engine leaves the history and the object store as they are
EngineOnly == UNCHANGED <<undoStack, redoStack, linear, heap, scene>>

ConstructorInputs ==
    {Options(<<>>),
     Options([easing |-> JsNumber(5000)]),
     Options([easing |-> JsNumber(0), speed |-> JsNumber(10000)]),
     Options([speed |-> JsNumber(-2000), autoSpin |-> JsBoolean(FALSE)])}

InitOptions ==
    /\ tags = <<>>
    /\ undoStack = <<>>
    /\ redoStack = <<>>
    /\ last = Call("constructor", "ok")
    /\ linear = Linear(<<>>)
    /\ heap = EmptyHeap
    /\ \E options \in ConstructorInputs : Holds(constructor(options))

\* options objects of one key whose value is a number that is not NaN
NumericInputs ==
    {Options([easing |-> JsNumber(n)]) : n \in {5000, 200, 5, -100}}
        \cup {Options([speed |-> JsNumber(n)]) : n \in {10000, 500, 0, -2000}}
        \cup {Options([radius |-> JsNumber(n)]) : n \in {200000, -5000}}
        \cup {Options([maxVelocity |-> JsNumber(n)]) : n \in {1000, -1000, 0}}

\* options objects of one key whose value is not a valid one
InvalidInputs ==
    {Options([radius |-> v]) : v \in {JsNumber(-5000), JsNumber(0), JsString("wide"), JsNull,
                                      JsBoolean(TRUE), JsNaN, JsUndefined}}
        \cup {Options([shape |-> v]) : v \in {JsString("blob"), JsNumber(7000), JsNull, JsUndefined}}
        \cup {Options([maxVelocity |-> v]) : v \in {JsNumber(-1000), JsString("fast"), JsNull,
                                                JsNaN, JsUndefined}}
        \cup {Options([easing |-> v]) : v \in {JsString("slow"), JsNull}}
        \cup {Options([speed |-> v]) : v \in {JsString("fast"), JsNull}}

ValidInputs ==
    {Options([radius |-> JsNumber(200000)]), Options([shape |-> JsString("cube")]),
     Options([shape |-> JsString("ring")]), Options([maxVelocity |-> JsNumber(1000)]),
     Options([maxVelocity |-> JsNumber(0)]), Options([easing |-> JsNumber(200)])}

UpdateOptions(newOptions) ==
    /\ EngineOnly
    /\ Becomes(updateOptions(This, newOptions))
    /\ last' = Call("updateOptions", "ok")

NextNumeric == \E newOptions \in NumericInputs : UpdateOptions(newOptions)

SpecNumeric == InitOptions /\ [][NextNumeric]_vars

NextOptions == \E newOptions \in InvalidInputs \cup ValidInputs : UpdateOptions(newOptions)

SpecOptions == InitOptions /\ [][NextOptions]_vars

---------------------------------------------------------------------------
(* The animation loop: frames, pause and resume, drags and their decay *)

MaxLoops == 2    \* a drag is released while fewer decay steps than this are pending
MaxTimers == 1   \* a tag is clicked while fewer timers than this are waiting

\* the browser runs an animation frame: every callback requested since the
\* last one, in the order of the requests
Frame ==
    /\ frames # <<>>
    /\ EngineOnly
    /\ \E e \in {RunCallbacks([This EXCEPT !.frames = <<>>], frames)} : Becomes(e)
    /\ last' = Call("frame", "ok")

Pause ==
    /\ EngineOnly
    /\ Becomes(pause(This))
    /\ last' = Call("pause", "ok")

Resume ==
    /\ EngineOnly
    /\ Becomes(resume(This))
    /\ last' = Call("resume", IF IsTruthy(settings.paused) THEN "ok" ELSE "returned")

Destroy ==
    /\ EngineOnly
    /\ Becomes(destroy(This))
    /\ last' = Call("destroy", "ok")

\* the steps easeOut has pending
Decays(fs) == SelectSeq(fs, LAMBDA f : f.kind = "easeOut")
\* the ticks pending
Ticks(fs) == SelectSeq(fs, LAMBDA f : f.kind = "_animate")

\* the user or the device raises an event: on the canvas while it is the
\* element in the page, on the window at any time
Dispatch(target, type, ev) ==
    /\ target = "canvas" => inDocument
    /\ EngineOnly
    /\ \E e \in {dispatchEvent(This, target, type, ev)} :
           /\ Len(Decays(e.frames)) <= MaxLoops
           /\ Len(e.timers) <= MaxTimers
           /\ Becomes(e)
           /\ last' = Call(type, IF e.raised # <<>> THEN "TypeError" ELSE "ok")

\* the delay of the oldest timer has passed: the browser runs its callback
Timeout ==
    /\ timers # <<>>
    /\ EngineOnly
    /\ Becomes(timeout(This))
    /\ last' = Call("timeout", "ok")

\* how far the pointer moved between two mousemove events, in pixels
Moves == {<<0, 0>>, <<3, 3>>}

\* two configurations in which velocity and rotation take few values.  In
\* Spinning every tick sets the velocity to the speed, and a decay step halves
\* it; in Coasting nothing but a drag sets it, and the first decay step takes
\* it below the threshold
Spinning ==
    [speed |-> JsNumber(500), easing |-> JsNumber(500), customEaseIn |-> JsNumber(1000),
     customFriction |-> JsNumber(500), minVelocityThreshold |-> JsNumber(50)]
Coasting ==
    [speed |-> JsNumber(500), easing |-> JsNumber(500), autoSpin |-> JsBoolean(FALSE),
     customFriction |-> JsNumber(500), minVelocityThreshold |-> JsNumber(300)]
LoopInputs == {Options(Spinning), Options(Coasting)}

InitLoop ==
    /\ tags = <<>>
    /\ undoStack = <<>>
    /\ redoStack = <<>>
    /\ last = Call("constructor", "ok")
    /\ linear = Linear(<<>>)
    /\ heap = EmptyHeap
    /\ \E options \in LoopInputs : Holds(constructor(options))

NextLoop ==
    \/ Frame
    \/ Pause
    \/ Resume
    \/ Destroy
    \/ Dispatch("canvas", "mousedown", NoDetail)
    \/ \E m \in Moves : Dispatch("canvas", "mousemove", Event({}, 0, 0, m[1], m[2]))
    \/ Dispatch("canvas", "mouseup", NoDetail)
    \/ Dispatch("window", "mouseup", NoDetail)
    \/ Dispatch("canvas", "keydown", Key(" "))

SpecLoop == InitLoop /\ [][NextLoop]_vars

\* drag starts, releases and frames alone, from the default settings and from the two above;
\* the browser keeps running animation frames while a callback is requested
InitDecay == Init \/ InitLoop

NextDecay ==
    \/ Frame
    \/ Dispatch("canvas", "mousedown", NoDetail)
    \/ Dispatch("canvas", "mouseup", NoDetail)

SpecDecay == InitDecay /\ [][NextDecay]_vars /\ WF_vars(Frame)

---------------------------------------------------------------------------
(* Events: callbacks registered with on(), pointer events over the tags *)

MaxCallbacks == 2    \* on() is called while fewer callbacks than this are registered

EventNames == {"tagClick", "tagHover", "pause", "resume"}
Callbacks == {"cb1", "cb2"}

On(event, callback) ==
    /\ Cardinality(watch.registered) < MaxCallbacks
    /\ <<event, callback>> \notin watch.registered
    /\ EngineOnly
    /\ Becomes([on(This, event, callback) EXCEPT !.registered = @ \cup {<<event, callback>>}])
    /\ last' = Call("on", "ok")

Off(event, callback) ==
    /\ EngineOnly
    /\ Becomes([off(This, event, callback) EXCEPT
                   !.registered = {r \in @ : r[1] # event \/ callback \notin {"undefined", r[2]}}])
    /\ last' = Call("off", "ok")

\* where the pointer is: over no tag, over the first, over the second; to
\* the lower right of the centre
Pointers == {Event(over, 600, 800, 0, 0) : over \in {{}, {0}, {1}}}

\* a tag is added: addTag with its history entry, layout and draw
AddTag == StoreOnly /\ addTag(PlainA)

\* callbacks are registered and taken back, and the instance paused and resumed
NextRegistry ==
    \/ \E event \in EventNames, callback \in Callbacks : On(event, callback)
    \/ \E event \in EventNames, callback \in {"cb1", "undefined"} : Off(event, callback)
    \/ Pause
    \/ Resume

SpecRegistry == InitLoop /\ [][NextRegistry]_vars

\* callbacks are registered for the tag events, tags added and drawn by the
\* ticks, and the pointer clicks and moves over them
NextEvents ==
    \/ Frame
    \/ Timeout
    \/ \E event \in {"tagClick", "tagHover"}, callback \in Callbacks : On(event, callback)
    \/ \E event \in {"tagClick", "tagHover"}, callback \in {"cb1", "undefined"} : Off(event, callback)
    \/ AddTag
    \/ \E pt \in Pointers : Dispatch("canvas", "click", pt)
    \/ \E pt \in Pointers : Dispatch("canvas", "mousemove", pt)
    \/ Dispatch("canvas", "mouseleave", NoDetail)

SpecEvents == InitLoop /\ [][NextEvents]_vars

(* C11: no step changes the snapshot an entry of the undo or the redo stack
   holds, whatever it assigns to the live tags, and no live tag is the
   object an entry holds. *)
C11_SnapshotsAreNotAliased ==
    [][/\ \A r \in EntryRefs(heap) \cap EntryRefs(heap') :
             heap'.objects[r] = heap.objects[r]
       /\ EntryRefs(heap') \cap LiveRefs(heap') = {}]_vars

C11_Witness ==
    /\ last.op = "mousemove"
    /\ Len(heap.redoStack) = 1 /\ Len(heap.undoStack) = 1
    /\ heap.redoStack[1].action = "remove"
    /\ heap.undoStack[1].action = "add"
    /\ Len(heap.tags) = 1
    /\ heap.objects[heap.tags[1]]._scale = HoverScale
    /\ heap.objects[heap.tags[1]].pos = Turned
    /\ heap.objects[heap.redoStack[1].tag]._scale = "1"
    /\ heap.objects[heap.undoStack[1].tag].pos = NoPos


(* C12: after construction and after any sequence of updateOptions calls with
   numeric values, settings.easing lies in [0.01, 0.5] and settings.speed in
   [0.001, 5]. *)
C12_EasingAndSpeedInRange ==
    /\ settings.easing.t = "number" /\ settings.easing # JsNaN
    /\ 10 <= settings.easing.n /\ settings.easing.n <= 500
    /\ settings.speed.t = "number" /\ settings.speed # JsNaN
    /\ 1 <= settings.speed.n /\ settings.speed.n <= 5000

\* the part of C12 that is about the constructor
C12_AfterConstruction == last.op = "constructor" => C12_EasingAndSpeedInRange

(* C13: updateOptions never raises on an invalid value and leaves a valid one
   in place: an invalid radius leaves settings.radius positive (its prior
   value or 150), an invalid shape leaves settings.shape = 'sphere', an invalid
   maxVelocity leaves settings.maxVelocity = 0.5. *)
C13_InvalidValuesFallBack ==
    [][\A newOptions \in InvalidInputs :
           UpdateOptions(newOptions) =>
               /\ watch'.raised = <<>>
               /\ newOptions.radius # NoKey =>
                      /\ settings'.radius \in {settings.radius, JsNumber(150000)}
                      /\ settings'.radius.t = "number" /\ settings'.radius # JsNaN
                      /\ settings'.radius.n > 0
               /\ newOptions.shape # NoKey => settings'.shape = JsString("sphere")
               /\ newOptions.maxVelocity # NoKey => settings'.maxVelocity = JsNumber(500)]_vars

\* the cases of C13 in which the fallback is taken: a radius of -5
C13_NegativeRadiusFallsBack ==
    [][UpdateOptions(Options([radius |-> JsNumber(-5000)])) =>
           settings'.radius = JsNumber(150000) /\ watch'.logged # <<>>]_vars


(* C14: after pause() no main tick runs until resume() is called; after
   resume() on a paused instance ticks run again, one per animation frame.
   A step taken while the instance is paused runs a tick only if it is the
   resume; pause() leaves no tick requested; the resume runs one tick and
   requests one; a frame of a running instance runs one tick and requests one. *)
C14_PauseStopsTicks ==
    [][LET ticks == Len(SelectSeq(watch'.ran, LAMBDA r : r = "_animate"))
       IN  /\ IsTruthy(settings.paused) /\ ticks > 0 =>
                  /\ last'.op \in {"resume", "keydown"}
                  /\ ~IsTruthy(settings'.paused)
           /\ last'.op \in {"pause", "destroy"} => Ticks(frames') = <<>> /\ ticks = 0
           /\ last'.op = "resume" /\ IsTruthy(settings.paused) =>
                  ticks = 1 /\ Len(Ticks(frames')) = 1
           /\ last'.op = "frame" /\ ~IsTruthy(settings.paused) =>
                  ticks = 1 /\ Len(Ticks(frames')) = 1]_vars

\* resume() has restarted a paused instance whose decay steps went on meanwhile
C14_Witness ==
    /\ last.op = "resume" /\ last.outcome = "ok"
    /\ ~IsTruthy(settings.paused)
    /\ watch.ran = <<"_animate">>
    /\ Len(Ticks(frames)) = 1 /\ animFrame = Ticks(frames)[1].id
    /\ Decays(frames) # <<>>


(* C15: with no input event between pause() and the next resume(), rotation
   and velocity at the resume are the ones at the pause: no scheduled callback,
   a decay loop started before the pause included, changes them while the
   instance is paused: the frame that follows pause() runs only callbacks
   requested before it. *)
C15_PausedStateIsKept ==
    [][last.op = "pause" /\ last'.op = "frame" =>
           velocity' = velocity /\ rotation' = rotation]_vars

\* the part of C15 that is about the rotation: only ticks change it
C15_PausedRotationIsKept ==
    [][IsTruthy(settings.paused) /\ last'.op = "frame" => rotation' = rotation]_vars

(* C16: after destroy() returns no callback scheduled before it, tick or decay
   step, runs and changes velocity, rotation or tags: the frame that follows
   destroy() runs only callbacks requested before it. *)
C16_DestroyStopsCallbacks ==
    [][last.op = "destroy" /\ last'.op = "frame" =>
           velocity' = velocity /\ rotation' = rotation /\ tags' = tags]_vars

\* the part of C16 that is about the main tick
C16_DestroyStopsTicks ==
    [][last.op = "destroy" /\ last'.op = "frame" => \A i \in 1..Len(watch'.ran) : watch'.ran[i] # "_animate"]_vars

(* C17: after destroy() returns none of the listeners the instance registered
   is attached to the window or to the canvas, so no later input event changes
   the state of the destroyed instance. *)
C17_DestroyDetachesListeners ==
    [][/\ last'.op = "destroy" => listeners' = <<>>
       /\ ~inDocument /\ last'.op \in {"mouseup", "mousedown", "mousemove", "keydown"} =>
              velocity' = velocity /\ rotation' = rotation /\ frames' = frames]_vars

\* the listeners destroy() does detach: resize and keydown
C17_ResizeAndKeydownDetached ==
    ~inDocument => \A i \in 1..Len(listeners) : listeners[i].type \notin {"resize", "keydown"}

\* the second half of C17 alone: an event after destroy() changes nothing
C17_NoEventReachesDestroyed ==
    [][~inDocument /\ last'.op \in {"mouseup", "mousedown", "mousemove", "keydown"} =>
           velocity' = velocity /\ rotation' = rotation /\ frames' = frames]_vars


(* C18: after every drag release, in every configuration, the friction-decay
   loop eventually snaps the velocity to zero and stops rescheduling itself:
   whenever a decay step is requested, a state follows in which none is. *)
C18_DecayTerminates == (Decays(frames) # <<>>) ~> (Decays(frames) = <<>>)

\* without autoSpin, and with a friction under 1, the loop does end
C18_CoastingDecayTerminates ==
    (~IsTruthy(settings.autoSpin) /\ Decays(frames) # <<>>)
        ~> (Decays(frames) = <<>> /\ velocity = [x |-> 0, y |-> 0])


(* C19: a callback registered with on('pause', cb) is invoked each time
   pause() is called, and one registered with on('resume', cb) each time
   resume() restarts a paused instance. *)
C19_PauseAndResumeAreEmitted ==
    [][\A callback \in Callbacks :
           /\ last'.op = "pause" /\ <<"pause", callback>> \in watch.registered =>
                  \E i \in 1..Len(watch'.emitted) :
                      watch'.emitted[i].event = "pause" /\ watch'.emitted[i].cb = callback
           /\ last' = Call("resume", "ok") /\ <<"resume", callback>> \in watch.registered =>
                  \E i \in 1..Len(watch'.emitted) :
                      watch'.emitted[i].event = "resume" /\ watch'.emitted[i].cb = callback]_vars

\* the registry holds what on() was given, for the three events it knows
C19_KnownEventsAreRegistered ==
    \A r \in watch.registered :
        r[1] \in {"tagClick", "tagHover", "tagLeave"} =>
            \E i \in 1..Len(_events[r[1]]) : _events[r[1]][i] = r[2]

(* C20: when a click lands inside the last-drawn screen box of a tag, every
   callback registered with on('tagClick', cb) is invoked once with that tag. *)
C20_ClickEmitsTagClick ==
    [][\A pt \in Pointers :
           /\ last'.op = "click"
           /\ inDocument /\ _getTagAt(This, pt) # 0
           /\ watch' = Watched([dispatchEvent(This, "canvas", "click", pt) EXCEPT
                                   !.registered = watch.registered])
           => \A r \in watch.registered :
                  r[1] = "tagClick" =>
                      Cardinality({i \in 1..Len(watch'.emitted) :
                                      watch'.emitted[i] =
                                          [event |-> "tagClick", cb |-> r[2],
                                           tag |-> tags[_getTagAt(This, pt)].index]}) = 1]_vars

\* what C20 says of tagClick does hold of tagHover: the pointer moving onto a
\* tag that is not the hovered one invokes every tagHover callback once with it
C20_MoveEmitsTagHover ==
    [][\A pt \in Pointers :
           /\ last' = Call("mousemove", "ok")
           /\ _getTagAt(This, pt) # 0 /\ tags[_getTagAt(This, pt)].index # _hoveredIndex
           /\ watch' = Watched([dispatchEvent(This, "canvas", "mousemove", pt) EXCEPT
                                   !.registered = watch.registered])
           => \A r \in watch.registered :
                  r[1] = "tagHover" =>
                      Cardinality({i \in 1..Len(watch'.emitted) :
                                      watch'.emitted[i] =
                                          [event |-> "tagHover", cb |-> r[2],
                                           tag |-> tags[_getTagAt(This, pt)].index]}) = 1]_vars

---------------------------------------------------------------------------
(* Hovering while the collection is edited *)

\* the instance after new Orbity(canvas, options), on('tagHover', cb1) and
\* on('tagLeave', cb1), with nothing but a drag to set it turning
InitHover ==
    /\ tags = <<>>
    /\ undoStack = <<>>
    /\ redoStack = <<>>
    /\ last = Call("on", "ok")
    /\ linear = Linear(<<>>)
    /\ heap = EmptyHeap
    /\ Holds([on(on(constructor(Options(Coasting)), "tagHover", "cb1"), "tagLeave", "cb1")
                 EXCEPT !.registered = {<<"tagHover", "cb1">>, <<"tagLeave", "cb1">>}])

\* tags are added and drawn, the pointer moves over them and leaves, and the
\* collection is replaced, edited, undone and cleared meanwhile
NextHover ==
    \/ Frame
    \/ StoreOnly /\ \E tagData \in {PlainA, SizedB} : addTag(tagData)
    \/ StoreOnly /\ \E index \in 0..(MaxTags - 1) : removeTag(index)
    \/ StoreOnly /\ undo
    \/ StoreOnly /\ NoHistory /\ setTags(<<SetTagsData(1)>>)
    \/ StoreOnly /\ clearTags
    \/ \E pt \in Pointers : Dispatch("canvas", "mousemove", pt)
    \/ Dispatch("canvas", "mouseleave", NoDetail)

SpecHover == InitHover /\ [][NextHover]_vars

(* C21: at most one tag is hovered and hover events are nested: a handler of
   the pointer raises nothing, hands tagLeave the hovered tag, and hands it
   over before tagHover for the next one; and the hovered index names the same
   tag from its tagHover to its tagLeave, also while tags are added, removed,
   replaced or undone. *)
C21_HoverEventsAreNested ==
    [][/\ last'.op \in {"mousemove", "mouseleave"} =>
              /\ ~Raised(last')
              /\ \A i \in 1..Len(watch'.emitted) :
                     /\ watch'.emitted[i].event = "tagLeave" =>
                            /\ watch'.emitted[i].tag = _hoveredIndex
                            /\ _hoveredIndex + 1 \in 1..Len(tags)
                     /\ watch'.emitted[i].event = "tagHover" =>
                            /\ watch'.emitted[i].tag = _hoveredIndex'
                            /\ \A j \in 1..Len(watch'.emitted) :
                                   watch'.emitted[j].event = "tagLeave" => j < i
       /\ (_hoveredIndex # null /\ last'.op \notin {"mousemove", "mouseleave"}) =>
              /\ _hoveredIndex + 1 \in 1..Len(tags')
              /\ Content(tags'[_hoveredIndex + 1]) = Content(tags[_hoveredIndex + 1])]_vars

\* while the collection is not edited the events are nested as C21 says: a
\* move from one tag onto another hands tagLeave the tag that was hovered and
\* then tagHover the new one
C21_NestedWhileTagsStay ==
    [][(/\ last' = Call("mousemove", "ok")
        /\ _hoveredIndex # null /\ _hoveredIndex' \notin {null, _hoveredIndex}
        /\ watch.registered = {<<"tagHover", "cb1">>, <<"tagLeave", "cb1">>})
           => watch'.emitted = << [event |-> "tagLeave", cb |-> "cb1", tag |-> _hoveredIndex],
                                  [event |-> "tagHover", cb |-> "cb1", tag |-> _hoveredIndex'] >>]_vars

---------------------------------------------------------------------------
(* The scene.  The tags once more, with the numbers the layout, the rotation
   of a tick, the draw pass and the hit test work with, in thousandths: a
   scene tag has x, y and z (undefined until a layout assigns them) and the
   box _screen of its last draw.  The layouts and the rotations here are the
   ones whose angles are whole quarter turns, for which Math.cos and Math.sin
   are 0, 1 or -1 to the thousandth. *)

MaxScene == 4    \* setTags is given at most this many tags

\* this.center, of a canvas 400 pixels wide and high
center == [x |-> 200000, y |-> 200000]

\* a / b
Div(a, b) ==
    LET q == (Abs(a) * 1000) \div Abs(b)
    IN  IF (a < 0) # (b < 0) THEN -q ELSE q

\* Math.cos and Math.sin of q quarter turns
cos(q) == CASE q % 4 = 0 -> 1000 [] q % 4 = 2 -> -1000 [] OTHER -> 0
sin(q) == CASE q % 4 = 1 -> 1000 [] q % 4 = 3 -> -1000 [] OTHER -> 0

\* the angle (k / n) * 2 * Math.PI in quarter turns, and whether it is whole
Quarters(k, n) == (4 * k) \div n
IsWhole(k, n) == (4 * k) % n = 0

\* Math.ceil(Math.sqrt(n)), Math.ceil(Math.cbrt(n)), Math.ceil(a / b)
CeilSqrt(n) == CHOOSE k \in 0..n : k * k >= n /\ \A j \in 0..(k - 1) : j * j < n
CeilCbrt(n) == CHOOSE k \in 0..n : k * k * k >= n /\ \A j \in 0..(k - 1) : j * j * j < n
CeilDiv(a, b) == (a + b - 1) \div b

Coordinate(x, y, z) == [x |-> JsNumber(x), y |-> JsNumber(y), z |-> JsNumber(z)]

torus(N, R) ==
    LET majorRadius == Mul(R, 600)
        minorRadius == Mul(R, 300)
        majorSteps == CeilSqrt(N)
        minorSteps == CeilDiv(N, majorSteps)
    IN  [n \in 1..N |->
            LET i == n - 1
                majorAngle == Quarters(i % majorSteps, majorSteps)
                minorAngle == Quarters(i \div majorSteps, minorSteps)
            IN  Coordinate(Mul(majorRadius + Mul(minorRadius, cos(minorAngle)), cos(majorAngle)),
                           Mul(majorRadius + Mul(minorRadius, cos(minorAngle)), sin(majorAngle)),
                           Mul(minorRadius, sin(minorAngle)))]

RECURSIVE cube(_, _, _, _)
\* the cells of the next n tags, from the counter validTags on: a cell at the
\* centre is skipped
cube(side, validTags, n, R) ==
    IF n = 0 THEN <<>>
    ELSE LET x == (validTags % side) * 1000 - side * 500 + 500
             y == ((validTags \div side) % side) * 1000 - side * 500 + 500
             z == (validTags \div (side * side)) * 1000 - side * 500 + 500
             threshold == 100
         IN  IF Abs(x) < threshold /\ Abs(y) < threshold /\ Abs(z) < threshold
             THEN cube(side, validTags + 1, n, R)
             ELSE <<Coordinate(Mul(x, R \div side) * 2, Mul(y, R \div side) * 2,
                               Mul(z, R \div side) * 2)>>
                      \o cube(side, validTags + 1, n - 1, R)

RECURSIVE pyramid(_, _, _)
\* the coordinates the levels from this one on hold, in the order of index
pyramid(level, levels, R) ==
    IF level >= levels THEN <<>>
    ELSE LET levelSize == levels - level
             y == (level * R * 2) \div levels - R
             radius == (R * (levels - level)) \div levels
         IN  [n \in 1..levelSize |->
                 Coordinate(Mul(radius, cos(Quarters(n - 1, levelSize))), y,
                            Mul(radius, sin(Quarters(n - 1, levelSize))))]
                 \o pyramid(level + 1, levels, R)

helix(N, R) ==
    LET turns == 2
        spacing == (2 * R) \div N
    IN  [n \in 1..N |->
            Coordinate(Mul(R, cos(Quarters((n - 1) * turns, N))), -R + (n - 1) * spacing,
                       Mul(R, sin(Quarters((n - 1) * turns, N))))]

ring(N, R) ==
    [n \in 1..N |-> Coordinate(Mul(R, cos(Quarters(n - 1, N))), 0, Mul(R, sin(Quarters(n - 1, N))))]

verticalRing(N, R) ==
    [n \in 1..N |-> Coordinate(0, Mul(R, sin(Quarters(n - 1, N))), Mul(R, cos(Quarters(n - 1, N))))]

cylinder(N, R) ==
    LET heightStep == (2 * R) \div CeilDiv(N, 10)
        circumferenceTags == CeilSqrt(N)
    IN  [n \in 1..N |->
            LET level == (n - 1) \div circumferenceTags
                angle == Quarters((n - 1) % circumferenceTags, circumferenceTags)
            IN  Coordinate(Mul(R, cos(angle)), -R + level * heightStep, Mul(R, sin(angle)))]

plane(N, R) ==
    LET gridCols == CeilSqrt(N)
        gridRows == CeilDiv(N, gridCols)
        spacingX == (2 * R) \div (IF gridCols - 1 # 0 THEN gridCols - 1 ELSE 1)
        spacingZ == (2 * R) \div (IF gridRows - 1 # 0 THEN gridRows - 1 ELSE 1)
    IN  [n \in 1..N |->
            Coordinate(-R + ((n - 1) % gridCols) * spacingX, 0,
                       -R + ((n - 1) \div gridCols) * spacingZ)]

\* the sphere of one tag: inclination and azimuth are 0
sphere(N, R) == [n \in 1..N |-> Coordinate(0, 0, R)]

\* whether every angle the layout of N tags takes is a whole quarter turn
WholeQuarters(shape, N) ==
    CASE N = 0 -> TRUE
      [] shape \in {"ring", "verticalRing"} -> \A i \in 0..(N - 1) : IsWhole(i, N)
      [] shape = "helix" -> \A i \in 0..(N - 1) : IsWhole(2 * i, N)
      [] shape \in {"cylinder", "torus"} ->
             /\ \A k \in 0..(CeilSqrt(N) - 1) : IsWhole(k, CeilSqrt(N))
             /\ \A k \in 0..(CeilDiv(N, CeilSqrt(N)) - 1) : IsWhole(k, CeilDiv(N, CeilSqrt(N)))
      [] shape = "pyramid" -> \A s \in 1..CeilSqrt(N) : \A k \in 0..(s - 1) : IsWhole(k, s)
      [] shape = "sphere" -> N = 1
      [] OTHER -> TRUE

\* the coordinates the switch of _positionTags assigns, in the order of index
switch(shape, N, R) ==
    CASE shape = "torus" -> torus(N, R)
      [] shape = "cube" -> cube(CeilCbrt(N), 0, N, R)
      [] shape = "pyramid" ->
             LET all == pyramid(0, CeilSqrt(N), R) IN SubSeq(all, 1, MathMin(N, Len(all)))
      [] shape = "helix" -> helix(N, R)
      [] shape = "ring" -> ring(N, R)
      [] shape = "verticalRing" -> verticalRing(N, R)
      [] shape = "cylinder" -> cylinder(N, R)
      [] shape = "plane" -> plane(N, R)
      [] OTHER -> sphere(N, R)

\* _positionTags on the scene tags ts
positionScene(ts, st) ==
    IF Len(ts) = 0 THEN ts
    ELSE LET assigned == switch(IF IsTruthy(st.shape) THEN st.shape.s ELSE DEFAULT_SHAPE,
                                Len(ts), st.radius.n)
         IN  [n \in 1..Len(ts) |->
                 IF n <= Len(assigned)
                 THEN [ts[n] EXCEPT !.x = assigned[n].x, !.y = assigned[n].y, !.z = assigned[n].z]
                 ELSE ts[n]]

\* a number that is not NaN
IsNumber(v) == v.t = "number" /\ v # JsNaN

\* the forEach of a tick: the tag turned by rotation.y and then rotation.x,
\* given in quarter turns; a product or a sum with undefined or NaN is NaN
rotate(tag, rotationY, rotationX) ==
    LET cosY == cos(rotationY)
        sinY == sin(rotationY)
        cosX == cos(rotationX)
        sinX == sin(rotationX)
        nx == IF IsNumber(tag.x) /\ IsNumber(tag.z)
              THEN JsNumber(Mul(tag.x.n, cosY) - Mul(tag.z.n, sinY)) ELSE JsNaN
        nz == IF IsNumber(tag.x) /\ IsNumber(tag.z)
              THEN JsNumber(Mul(tag.x.n, sinY) + Mul(tag.z.n, cosY)) ELSE JsNaN
        ny == IF IsNumber(tag.y) /\ IsNumber(nz)
              THEN JsNumber(Mul(tag.y.n, cosX) - Mul(nz.n, sinX)) ELSE JsNaN
    IN  [tag EXCEPT !.x = nx, !.y = ny,
                    !.z = IF IsNumber(tag.y) /\ IsNumber(nz)
                          THEN JsNumber(Mul(tag.y.n, sinX) + Mul(nz.n, cosX)) ELSE JsNaN]

\* (a, b) => b.z - a.z; the sort takes a result of NaN for 0
compare(a, b) == IF IsNumber(a.z) /\ IsNumber(b.z) THEN b.z.n - a.z.n ELSE 0

RECURSIVE sort(_, _, _)
\* Array.prototype.sort, which is stable: the positions in ts of the tags
\* from position n on, put in their place among the sorted ones
sort(ts, sorted, n) ==
    IF n > Len(ts) THEN sorted
    ELSE LET before == Cardinality({k \in 1..Len(sorted) : compare(ts[sorted[k]], ts[n]) <= 0})
         IN  sort(ts, SubSeq(sorted, 1, before) \o <<n>> \o SubSeq(sorted, before + 1, Len(sorted)),
                  n + 1)

\* the filter of the draw pass
filter(tag) ==
    /\ tag.text.t = "string"
    /\ tag.x.t = "number" /\ tag.y.t = "number" /\ tag.z.t = "number"

\* the positions in ts of the tags the draw pass draws, in the order it draws them
sortedTags(ts) ==
    LET kept == SelectSeq([n \in 1..Len(ts) |-> n], LAMBDA n : filter(ts[n]))
        only == [k \in 1..Len(kept) |-> ts[kept[k]]]
        order == sort(only, <<>>, 1)
    IN  [k \in 1..Len(order) |-> kept[order[k]]]

\* ctx.measureText(tag.text).width, of a text four half ems wide
measureText(fontSize) == 2 * fontSize

\* the box the draw pass stores in tag._screen
screen(tag) ==
    LET denominator == center.x * 2 + tag.z.n
        scale == IF IsNumber(tag.z) /\ denominator > 0 THEN Div(center.x * 2, denominator)
                 ELSE 1000
        fontSize == Mul(15000, scale)
    IN  [set |-> TRUE,
         x |-> IF IsNumber(tag.x) THEN Mul(tag.x.n, scale) + center.x ELSE center.x,
         y |-> IF IsNumber(tag.y) THEN Mul(tag.y.n, scale) + center.y ELSE center.y,
         width |-> measureText(fontSize), height |-> fontSize]

\* the draw pass: the tags it draws get their box, and the scene takes down
\* the order they were drawn in
drawScene(ts) ==
    [tags |-> [n \in 1..Len(ts) |->
                  IF filter(ts[n]) /\ IsTruthy(ts[n].text)
                  THEN [ts[n] EXCEPT !._screen = screen(ts[n])]
                  ELSE ts[n]],
     sortedTags |-> sortedTags(ts)]

\* whether the box s holds the point pt
Holding(s, pt) ==
    s.set /\ 2 * Abs(pt.x - s.x) <= s.width /\ 2 * Abs(pt.y - s.y) <= s.height

\* _getTagAt on the scene tags: the position in ts of the tag, 0 for null
getTagAt(ts, pt) ==
    LET hit == {n \in 1..Len(ts) : Holding(ts[n]._screen, pt)}
    IN  IF hit = {} THEN 0 ELSE CHOOSE n \in hit : \A k \in hit : k <= n

\* a step on the scene leaves everything else as it is
SceneOnly == UNCHANGED <<tags, undoStack, redoStack, linear, heap, engine>>

\* setTags with N tags: the new tags, their layout and a draw pass
setTagsScene(N) ==
    /\ WholeQuarters(IF IsTruthy(settings.shape) THEN settings.shape.s ELSE DEFAULT_SHAPE, N)
    /\ scene' = drawScene(positionScene(
                    [n \in 1..N |->
                        [text |-> JsString("tag"), index |-> n - 1, x |-> JsUndefined,
                         y |-> JsUndefined, z |-> JsUndefined,
                         _screen |-> [set |-> FALSE, x |-> 0, y |-> 0, width |-> 0, height |-> 0]]],
                    settings))
    /\ last' = Call("setTags", "ok")

MaxSpin == 1000    \* a tick runs while no rotation is beyond this, in thousandths

\* a tick that turns the tags whatever the velocity
animateScene_AlwaysTurns(rotationY, rotationX) ==
    LET shape == IF IsTruthy(settings.shape) THEN settings.shape.s ELSE DEFAULT_SHAPE
        y == IF shape = "verticalRing" THEN 0 ELSE rotationY
        x == IF shape \in {"ring", "helix"} THEN 0 ELSE rotationX
    IN  /\ rotationY # 0 \/ rotationX # 0
        /\ frames # <<>> /\ Head(frames).kind = "_animate"
        /\ Abs(rotation.x) <= MaxSpin /\ Abs(rotation.y) <= MaxSpin
        /\ UNCHANGED <<undoStack, redoStack, linear, heap>>
        /\ \E e \in {RunCallbacks([This EXCEPT !.frames = <<>>], frames)} : Becomes(e)
        /\ scene' = drawScene([n \in 1..Len(scene.tags) |-> rotate(scene.tags[n], y, x)])
        /\ last' = Call("frame", "ok")

\* an animation frame, with the numbers of the scene: the tick, first of the
\* callbacks of the frame, sets velocity and rotation; if the velocity it
\* comes to is not (0, 0) it turns the tags by the rotation, which has come to
\* rotationY and rotationX quarter turns (not both 0) with the axis the shape
\* locks at 0; then it draws
animateScene(rotationY, rotationX) ==
    LET shape == IF IsTruthy(settings.shape) THEN settings.shape.s ELSE DEFAULT_SHAPE
        y == IF shape = "verticalRing" THEN 0 ELSE rotationY
        x == IF shape \in {"ring", "helix"} THEN 0 ELSE rotationX
    IN  /\ rotationY # 0 \/ rotationX # 0
        /\ frames # <<>> /\ Head(frames).kind = "_animate"
        /\ Abs(rotation.x) <= MaxSpin /\ Abs(rotation.y) <= MaxSpin
        /\ UNCHANGED <<undoStack, redoStack, linear, heap>>
        /\ \E e \in {RunCallbacks([This EXCEPT !.frames = <<>>], frames)} : Becomes(e)
        /\ \E ticked \in {_animate(This)} :
               scene' = drawScene(IF ticked.velocity.x # 0 \/ ticked.velocity.y # 0
                                  THEN [n \in 1..Len(scene.tags) |-> rotate(scene.tags[n], y, x)]
                                  ELSE scene.tags)
        /\ last' = Call("frame", "ok")

\* Coasting without the damping of the rotation
Undamped ==
    [speed |-> JsNumber(500), easing |-> JsNumber(500), autoSpin |-> JsBoolean(FALSE),
     customFriction |-> JsNumber(500), minVelocityThreshold |-> JsNumber(300),
     autoEasing |-> JsBoolean(FALSE)]

\* the instance after new Orbity(canvas, options) with each shape, at rest
\* until a drag sets it turning, with and without damping
InitScene ==
    /\ tags = <<>>
    /\ undoStack = <<>>
    /\ redoStack = <<>>
    /\ last = Call("constructor", "ok")
    /\ linear = Linear(<<>>)
    /\ heap = EmptyHeap
    /\ \E loop \in {Coasting, Undamped}, shape \in validShapes :
           Holds(constructor(Merge(Options(loop), Options([shape |-> JsString(shape)]))))

\* tags are set, a drag starts and is released, and frames run
NextScene ==
    \/ SceneOnly /\ \E N \in 0..MaxScene : setTagsScene(N)
    \/ \E rotationY \in 0..1, rotationX \in 0..1 : animateScene(rotationY, rotationX)
    \/ Dispatch("canvas", "mousedown", NoDetail)
    \/ Dispatch("canvas", "mouseup", NoDetail)

SpecScene == InitScene /\ [][NextScene]_vars

---------------------------------------------------------------------------
(* What the claims say of the scene.  Every step of the scene ends with a
   draw pass, so the boxes are the last-drawn ones and scene.sortedTags is the
   order of the most recent pass. *)

\* the tags whose box holds the point
Over(pt) == {n \in 1..Len(scene.tags) : Holding(scene.tags[n]._screen, pt)}

\* the centre of the box of the tag at position n
Centre(n) == [x |-> scene.tags[n]._screen.x, y |-> scene.tags[n]._screen.y]

\* the tags of the most recent draw pass, and the place of each in it
Drawn == {scene.sortedTags[k] : k \in 1..Len(scene.sortedTags)}
Place(n) == CHOOSE k \in 1..Len(scene.sortedTags) : scene.sortedTags[k] = n

(* C22: when the boxes of several tags hold the pointer, the hit test returns
   the one of them the most recent draw pass drew last, whatever the rotation. *)
C22_HitIsDrawnLast ==
    \A n \in Drawn :
        Cardinality(Over(Centre(n))) >= 2 =>
            LET hit == getTagAt(scene.tags, Centre(n))
            IN  hit \in Drawn /\ \A k \in Over(Centre(n)) \cap Drawn : Place(k) <= Place(hit)

\* what the hit test does return: of the tags whose box holds the pointer,
\* the last of the collection
C22_HitIsLastOfCollection ==
    \A n \in Drawn :
        LET hit == getTagAt(scene.tags, Centre(n))
        IN  hit \in Over(Centre(n)) /\ \A k \in Over(Centre(n)) : k <= hit

(* C23: right after a draw pass, the hit test at the centre of the box of a
   drawn tag t returns t or a tag whose z is equal to or higher than t's. *)
C23_HitAtCentreIsNotBelow ==
    \A t \in Drawn :
        LET hit == getTagAt(scene.tags, Centre(t))
        IN  \/ hit = t
            \/ /\ hit # 0
               /\ IsNumber(scene.tags[hit].z) /\ IsNumber(scene.tags[t].z)
               /\ scene.tags[hit].z.n >= scene.tags[t].z.n

(* C24: in every draw pass the tags are drawn in the order of non-increasing
   z, each tag's z at most the z of the tag drawn before it, and only tags of
   the live collection are drawn. *)
C24_DrawnByFallingZ ==
    /\ \A k \in 2..Len(scene.sortedTags) :
           LET a == scene.tags[scene.sortedTags[k - 1]]
               b == scene.tags[scene.sortedTags[k]]
           IN  IsNumber(a.z) /\ IsNumber(b.z) /\ b.z.n <= a.z.n
    /\ Drawn \subseteq 1..Len(scene.tags)

\* the order is the one C24 says while every tag has its coordinate
C24_DrawnByFallingZWhenPlaced ==
    (\A n \in 1..Len(scene.tags) : IsNumber(scene.tags[n].z)) => C24_DrawnByFallingZ

(* C25: after a layout run, for every shape and every number of tags, every
   tag has a finite x, y and z; with no tag the layout changes nothing. *)
C25_LayoutPlacesEveryTag ==
    last.op = "setTags" =>
        \A n \in 1..Len(scene.tags) :
            IsNumber(scene.tags[n].x) /\ IsNumber(scene.tags[n].y) /\ IsNumber(scene.tags[n].z)

\* every shape but the pyramid does place every tag
C25_AllButPyramidPlace ==
    (last.op = "setTags" /\ settings.shape # JsString("pyramid")) =>
        \A n \in 1..Len(scene.tags) :
            IsNumber(scene.tags[n].x) /\ IsNumber(scene.tags[n].y) /\ IsNumber(scene.tags[n].z)

---------------------------------------------------------------------------
(* The velocity a tick leaves *)

\* the two configurations of the loop with the default speed, which is twice
\* the default maxVelocity, and with the device tilt listened to
Fast ==
    {Options([easing |-> JsNumber(500), customEaseIn |-> JsNumber(1000),
              customFriction |-> JsNumber(500), minVelocityThreshold |-> JsNumber(300),
              enableOrientation |-> JsBoolean(TRUE)]),
     Options([easing |-> JsNumber(500), autoSpin |-> JsBoolean(FALSE),
              customFriction |-> JsNumber(500), minVelocityThreshold |-> JsNumber(300),
              enableOrientation |-> JsBoolean(TRUE)])}

InitVelocity ==
    /\ tags = <<>>
    /\ undoStack = <<>>
    /\ redoStack = <<>>
    /\ last = Call("constructor", "ok")
    /\ linear = Linear(<<>>)
    /\ heap = EmptyHeap
    /\ \E options \in Fast : Holds(constructor(options))

\* a device tilted by gamma and beta degrees
Tilt(gamma, beta) == [NoDetail EXCEPT !.gamma = gamma, !.beta = beta]

\* frames, drags, clicks on the diagonal to the lower right of the centre, and
\* tilts
NextVelocity ==
    \/ Frame
    \/ Dispatch("canvas", "mousedown", NoDetail)
    \/ \E m \in Moves : Dispatch("canvas", "mousemove", Event({}, 0, 0, m[1], m[2]))
    \/ Dispatch("canvas", "mouseup", NoDetail)
    \/ Dispatch("canvas", "click", Event({}, 707, 707, 0, 0))
    \/ Dispatch("window", "deviceorientation", Tilt(90, 90))

SpecVelocity == InitVelocity /\ [][NextVelocity]_vars

\* a frame in which a main tick ran
MainTick ==
    last'.op = "frame" /\ \E i \in 1..Len(watch'.ran) : watch'.ran[i] = "_animate"

(* C26: whenever maxVelocity > 0, after every main tick both components of the
   velocity lie in [-maxVelocity, +maxVelocity], whatever set them before the
   tick and whether or not autoSpin is enabled. *)
C26_TickCapsVelocity ==
    [][(MainTick /\ settings'.maxVelocity.n > 0)
          => /\ Abs(velocity'.x) <= settings'.maxVelocity.n
             /\ Abs(velocity'.y) <= settings'.maxVelocity.n]_vars

\* with autoSpin enabled the tick does cap the velocity
C26_TickCapsVelocityWhileSpinning ==
    [][(MainTick /\ settings'.maxVelocity.n > 0 /\ IsTruthy(settings.autoSpin))
          => /\ Abs(velocity'.x) <= settings'.maxVelocity.n
             /\ Abs(velocity'.y) <= settings'.maxVelocity.n]_vars

---------------------------------------------------------------------------
(* The axis a shape locks *)

MaxRotation == 100    \* an arrow key is pressed while the rotation it changes is within this, in thousandths

Shapes == {"sphere", "ring", "helix", "verticalRing"}

\* the two configurations of the loop, with each of the shapes
InitAxis ==
    /\ tags = <<>>
    /\ undoStack = <<>>
    /\ redoStack = <<>>
    /\ last = Call("constructor", "ok")
    /\ linear = Linear(<<>>)
    /\ heap = EmptyHeap
    /\ \E loop \in {Spinning, Coasting}, shape \in Shapes :
           Holds(constructor(Merge(Options(loop), Options([shape |-> JsString(shape)]))))

\* a key of the keyboard is pressed on the canvas
Press(key) ==
    /\ key = "ArrowUp" => Abs(rotation.x) <= MaxRotation
    /\ key = "ArrowRight" => Abs(rotation.y) <= MaxRotation
    /\ Dispatch("canvas", "keydown", Key(key))

\* frames, the keys that turn the cloud, changes of the shape, the start of a drag
NextAxis ==
    \/ Frame
    \/ \E key \in {"ArrowUp", "ArrowRight", "Home"} : Press(key)
    \/ \E shape \in Shapes : UpdateOptions(Options([shape |-> JsString(shape)]))
    \/ Dispatch("canvas", "mousedown", NoDetail)

SpecAxis == InitAxis /\ [][NextAxis]_vars

\* the shape a tick reads
ShapeOf(st) == IF IsTruthy(st.shape) THEN st.shape.s ELSE DEFAULT_SHAPE

(* C27: after every main tick rotation.x is 0 if the shape is 'ring' or
   'helix', and rotation.y is 0 if it is 'verticalRing', whatever the
   velocity and whatever keys and option changes came before the tick. *)
C27_TickLocksAxis ==
    [][MainTick
          => /\ ShapeOf(settings') \in {"ring", "helix"} => rotation'.x = 0
             /\ ShapeOf(settings') = "verticalRing" => rotation'.y = 0]_vars

\* a tick of a turning cloud does lock the axis
C27_TickLocksAxisWhileTurning ==
    [][(MainTick /\ (velocity'.x # 0 \/ velocity'.y # 0))
          => /\ ShapeOf(settings') \in {"ring", "helix"} => rotation'.x = 0
             /\ ShapeOf(settings') = "verticalRing" => rotation'.y = 0]_vars

(* C28: a main tick that comes to its rotation step with the velocity (0, 0)
   leaves the rotation and the x, y and z of every tag exactly as they were,
   with and without damping, however many such ticks follow one another. *)
C28_RestingTickChangesNothing ==
    [][(last'.op = "frame" /\ _animate(This).velocity = [x |-> 0, y |-> 0])
          => /\ rotation' = rotation
             /\ Len(scene'.tags) = Len(scene.tags)
             /\ \A n \in 1..Len(scene.tags) :
                    /\ scene'.tags[n].x = scene.tags[n].x
                    /\ scene'.tags[n].y = scene.tags[n].y
                    /\ scene'.tags[n].z = scene.tags[n].z]_vars

\* a tick of a resting cloud has run: four tags that a drag has turned away
\* from their layout, a rotation that is not 0, and no velocity
C28_Witness ==
    /\ last.op = "frame" /\ watch.ran = <<"_animate">>
    /\ velocity = [x |-> 0, y |-> 0]
    /\ rotation.y # 0
    /\ Len(scene.tags) = 4
    /\ \E n \in 1..4 : scene.tags[n].z # positionScene(scene.tags, settings)[n].z


---------------------------------------------------------------------------
(* The input toggles at run time: updateOptions of enableClick, enableTouch and
   enableOrientation, between clicks, touch drags and tilts of the device *)
MaxBindings == 4    \* a toggle is set while fewer calls than this have bound handlers

Toggles == {"enableClick", "enableTouch", "enableOrientation"}

Toggle(key, value) ==
    CASE key = "enableClick" -> Options([enableClick |-> JsBoolean(value)])
      [] key = "enableTouch" -> Options([enableTouch |-> JsBoolean(value)])
      [] key = "enableOrientation" -> Options([enableOrientation |-> JsBoolean(value)])

InitToggles ==
    /\ tags = <<>>
    /\ undoStack = <<>>
    /\ redoStack = <<>>
    /\ last = Call("constructor", "ok")
    /\ linear = Linear(<<>>)
    /\ heap = EmptyHeap
    /\ Holds(constructor(Merge(Options(Coasting), Options([enableOrientation |-> JsBoolean(TRUE)]))))

NextToggles ==
    \/ \E key \in Toggles, value \in BOOLEAN :
           Len(bindings) < MaxBindings /\ UpdateOptions(Toggle(key, value))
    \/ Dispatch("canvas", "click", Event({}, 707, 707, 0, 0))
    \/ Dispatch("canvas", "touchstart", NoDetail)
    \/ Dispatch("canvas", "touchmove", Event({}, 0, 0, 3, 3))
    \/ Dispatch("canvas", "touchend", NoDetail)
    \/ Dispatch("window", "deviceorientation", Tilt(90, 90))

SpecToggles == InitToggles /\ [][NextToggles]_vars

\* how many of the handlers that ran for the last event were of these functions
Handled(ran, fns) == Len(SelectSeq(ran, LAMBDA fn : fn \in fns))

ClickHandlers == {"_onCanvasClick.bind(this)", "this._clickHandler"}

\* C29: while a toggle is off (updateOptions set it to false) its event leaves
\* the velocity alone: a click for enableClick, the start and the moves of a
\* touch drag for enableTouch, a tilt of the device for enableOrientation; and
\* while it is on, however often updateOptions set it so, one handler and no
\* more runs for each such event.
C29_TogglesTakeEffect ==
    [][/\ last'.op = "click" =>
              IF IsTruthy(settings.enableClick)
              THEN Handled(watch'.ran, ClickHandlers) = 1
              ELSE velocity' = velocity
       /\ last'.op = "touchstart" =>
              IF IsTruthy(settings.enableTouch)
              THEN Handled(watch'.ran, {"startHandler"}) = 1
              ELSE velocity' = velocity
       /\ last'.op = "touchmove" =>
              IF IsTruthy(settings.enableTouch)
              THEN Handled(watch'.ran, {"moveHandler"}) = 1
              ELSE velocity' = velocity
       /\ last'.op = "deviceorientation" =>
              IF IsTruthy(settings.enableOrientation)
              THEN Handled(watch'.ran, {"handleOrientation"}) = 1
              ELSE velocity' = velocity]_vars

\* What does hold of the three: each of them attaches handlers and none takes
\* any off, so every click, touch and tilt is handled at least once whatever
\* the toggles say; a touch is handled once only, _bindDragEvents taking the
\* closures of its last call off before it puts the new ones on.
C29_EventsStayHandled ==
    [][/\ last'.op = "click" => Handled(watch'.ran, ClickHandlers) \in {1, 2}
       /\ last'.op = "touchstart" => Handled(watch'.ran, {"startHandler"}) = 1
       /\ last'.op = "touchmove" => Handled(watch'.ran, {"moveHandler"}) = 1
       /\ last'.op = "deviceorientation" => Handled(watch'.ran, {"handleOrientation"}) >= 1]_vars

\* the three ways in which a toggle fails: a click that turns the cloud with
\* enableClick off, a click handled twice with it on, a tilt handled by every
\* closure that enableOrientation: true has bound
C29_ClickWhileOff ==
    /\ last.op = "click" /\ ~IsTruthy(settings.enableClick)
    /\ velocity # [x |-> 0, y |-> 0]
C29_ClickHandledTwice ==
    /\ last.op = "click" /\ IsTruthy(settings.enableClick)
    /\ Handled(watch.ran, ClickHandlers) = 2
C29_TiltHandledByAll ==
    /\ last.op = "deviceorientation"
    /\ Handled(watch.ran, {"handleOrientation"}) = 2


---------------------------------------------------------------------------
(* The click effect: tags are added and drawn, the pointer moves over them and
   clicks, and the timer a click on a tag has set runs out; with hoverEffect
   on and off *)
InitClick ==
    /\ tags = <<>>
    /\ undoStack = <<>>
    /\ redoStack = <<>>
    /\ last = Call("constructor", "ok")
    /\ linear = Linear(<<>>)
    /\ heap = EmptyHeap
    /\ \E hoverEffect \in BOOLEAN :
           Holds(constructor(Merge(Options(Coasting),
                                   Options([hoverEffect |-> JsBoolean(hoverEffect)]))))

NextClick ==
    \/ Frame
    \/ Timeout
    \/ AddTag
    \/ \E pt \in Pointers : Dispatch("canvas", "click", pt)
    \/ \E pt \in Pointers : Dispatch("canvas", "mousemove", pt)
    \/ Dispatch("canvas", "mouseleave", NoDetail)

SpecClick == InitClick /\ [][NextClick]_vars

\* C30: with clickEffect on, a click on a tag sets the tag's scale to the click
\* scale and a timer; when the timer runs out the scale of the tag is what it
\* was just before the click (1 for a tag that was not hover-scaled), with
\* hoverEffect on or off.
C30_ClickScaleIsTransient ==
    [][/\ (last'.op = "click" /\ timers' # timers) =>
              LET set == timers'[Len(timers')]
              IN  tags'[set.tag]._scale = ClickScale /\ set.was = tags[set.tag]._scale
       /\ last'.op = "timeout" =>
              tags'[Head(timers).tag]._scale = Head(timers).was]_vars

\* What does hold: the timer leaves the tag at hoverScale, whatever the scale
\* was before the click; that is the scale before the click only for a tag
\* that was hover-scaled.
C30_TimerSetsHoverScale ==
    [][last'.op = "timeout" =>
           /\ tags'[Head(timers).tag]._scale = HoverScale
           /\ Head(timers).was = HoverScale =>
                  tags'[Head(timers).tag]._scale = Head(timers).was]_vars

\* a tag that was at scale 1 when it was clicked, hoverEffect being off, is
\* left hover-scaled by the timer; and one that was hover-scaled is back there
C30_LeftHoverScaled ==
    /\ last.op = "timeout" /\ ~IsTruthy(settings.hoverEffect)
    /\ Len(tags) = 1 /\ tags[1]._scale = HoverScale
    /\ _hoveredIndex = null
C30_BackToHoverScale ==
    /\ last.op = "timeout" /\ IsTruthy(settings.hoverEffect)
    /\ _hoveredIndex = 0 /\ tags[1]._scale = HoverScale


---------------------------------------------------------------------------
(* The depth of the projection: the scene with a radius of twice center.x,
   with which a layout puts tags as far behind the centre as the viewer is
   before it *)
Deep == [speed |-> JsNumber(500), easing |-> JsNumber(500), autoSpin |-> JsBoolean(FALSE),
         customFriction |-> JsNumber(500), minVelocityThreshold |-> JsNumber(300),
         radius |-> JsNumber(2 * center.x)]

InitDepth ==
    /\ tags = <<>>
    /\ undoStack = <<>>
    /\ redoStack = <<>>
    /\ last = Call("constructor", "ok")
    /\ linear = Linear(<<>>)
    /\ heap = EmptyHeap
    /\ \E shape \in validShapes :
           Holds(constructor(Merge(Options(Deep), Options([shape |-> JsString(shape)]))))

SpecDepth == InitDepth /\ [][NextScene]_vars

\* whether the denominator center.x * 2 + tag.z of the tag is a number above 0
Projects(tag) == IsNumber(tag.z) /\ center.x * 2 + tag.z.n > 0

\* C31: after a draw pass, a drawn tag whose denominator 2 * center.x + z is
\* not positive or not finite has the box of scale 1 (the font size 15) at the
\* centre of the viewport, and every other drawn tag has the box of its
\* projection.
C31_DepthFallsBackToCentre ==
    \A n \in 1..Len(scene.tags) :
        LET tag == scene.tags[n]
        IN  tag._screen.set =>
                IF Projects(tag)
                THEN tag._screen = screen(tag)
                ELSE /\ tag._screen.height = 15000
                     /\ tag._screen.x = center.x /\ tag._screen.y = center.y

\* What does hold: such a tag is drawn with scale 1, and at the centre along
\* each axis on which its coordinate is not a number; along the others it is
\* drawn at its own coordinate from the centre.
C31_DepthFallsBackToScaleOne ==
    \A n \in 1..Len(scene.tags) :
        LET tag == scene.tags[n]
        IN  (tag._screen.set /\ ~Projects(tag)) =>
                /\ tag._screen.height = 15000
                /\ tag._screen.x = IF IsNumber(tag.x) THEN tag.x.n + center.x ELSE center.x
                /\ tag._screen.y = IF IsNumber(tag.y) THEN tag.y.n + center.y ELSE center.y

\* a tag at the depth of the viewer behind the centre, drawn off the centre;
\* and a tag with no depth, drawn at the centre
C31_DrawnOffCentre ==
    \E n \in 1..Len(scene.tags) :
        /\ scene.tags[n]._screen.set /\ IsNumber(scene.tags[n].z)
        /\ center.x * 2 + scene.tags[n].z.n = 0
        /\ scene.tags[n]._screen.y # center.y
C31_DrawnAtCentre ==
    \E n \in 1..Len(scene.tags) :
        /\ scene.tags[n]._screen.set /\ scene.tags[n].z = JsNaN
        /\ scene.tags[n]._screen.x = center.x /\ scene.tags[n]._screen.y = center.y


---------------------------------------------------------------------------
(* Drags and ticks: mouse and touch drags from their start to their release,
   and frames between them, with autoSpin on (Spinning) and off (Coasting) *)
NextDrag ==
    \/ Frame
    \/ Dispatch("canvas", "mousedown", NoDetail)
    \/ \E m \in Moves : Dispatch("canvas", "mousemove", Event({}, 0, 0, m[1], m[2]))
    \/ Dispatch("canvas", "mouseup", NoDetail)
    \/ Dispatch("canvas", "touchstart", NoDetail)
    \/ \E m \in Moves : Dispatch("canvas", "touchmove", Event({}, 0, 0, m[1], m[2]))
    \/ Dispatch("canvas", "touchend", NoDetail)

SpecDrag == InitLoop /\ [][NextDrag]_vars

\* a drag of the mouse or a touch is in progress: isDragging of the closures
\* of a call of _bindDragEvents is true
Dragging == \E k \in 1..Len(bindings) : bindings[k].isDragging

\* the frame about to run is a tick and nothing else
TickAlone == Len(frames) = 1 /\ frames[1].kind = "_animate"

\* C32: a tick that runs while a drag or a touch is in progress, between its
\* start and its release, leaves the velocity as the drag has set it; the pull
\* of autoSpin towards the speed acts on an idle instance only.
C32_TickLeavesDragVelocity ==
    [][(last'.op = "frame" /\ TickAlone /\ Dragging) => velocity' = velocity]_vars

\* What does hold: the tick leaves the velocity of a drag alone when autoSpin
\* is off; with autoSpin on it pulls the velocity towards the speed, drag or
\* no drag, as _animate(This) does whatever isDragging is.
C32_TickPullsWhateverTheDrag ==
    [][(last'.op = "frame" /\ TickAlone) =>
           /\ velocity' = _animate(This).velocity
           /\ ~IsTruthy(settings.autoSpin) => velocity' = velocity]_vars

\* a tick during a drag whose last move has set the velocity to (0, 0): with
\* autoSpin it has pulled the velocity to the speed, without it has left it
C32_PulledDuringDrag ==
    /\ last.op = "frame" /\ Dragging /\ IsTruthy(settings.autoSpin)
    /\ watch.ran = <<"_animate">>
    /\ velocity = [x |-> settings.speed.n, y |-> settings.speed.n]
C32_LeftDuringDrag ==
    /\ last.op = "frame" /\ Dragging /\ ~IsTruthy(settings.autoSpin)
    /\ watch.ran = <<"_animate">>
    /\ velocity = [x |-> 0, y |-> 0]


---------------------------------------------------------------------------
(* The throttle at work: resizes of the window and moves of the pointer reach
   the throttled functions in bursts, the clock goes on and the timeouts run
   out *)
MaxTime == 6     \* the clock runs to this reading, in units of 50 ms
MaxBurst == 2    \* a throttled function is called while fewer calls than this wait

\* the arguments of the calls: the event
Samples(fn) ==
    IF fn = "_resize" THEN {NoDetail}
    ELSE {Event(over, 600, 800, 0, 0) : over \in {{}, {0}}}

\* the window is resized, the pointer moves: the throttled function is called.
\* The call is made while the timeout it sets can run out by MaxTime
Throttled(fn, args) ==
    /\ throttle.of[fn].burst < MaxBurst
    /\ throttle.of[fn].lastRan # 0 =>
           MathMax(throttle.now, throttle.of[fn].lastRan + limit[fn]) <= MaxTime
    /\ EngineOnly
    /\ \E e \in {throttled(This, fn, args)} : Becomes(e)
    /\ last' = Call("throttled", "ok")

\* the clock goes on by one unit
Pass ==
    /\ throttle.now < MaxTime
    /\ EngineOnly
    /\ \E e \in {[This EXCEPT !.throttle.now = @ + 1]} : Becomes(e)
    /\ last' = Call("pass", "ok")

\* a timeout of the throttled function fn has run out, not before it is due:
\* the browser runs its callback
Delayed(fn) ==
    /\ EngineOnly
    /\ \E i \in 1..Len(throttle.timeouts) :
           /\ throttle.timeouts[i].fn = fn
           /\ throttle.timeouts[i].due <= throttle.now
           /\ \E e \in {delayed(This, throttle.timeouts[i])} : Becomes(e)
    /\ last' = Call("delayed", "ok")

NextThrottle ==
    \/ \E fn \in DOMAIN limit : \E args \in Samples(fn) : Throttled(fn, args)
    \/ Pass
    \/ \E fn \in DOMAIN limit : Delayed(fn)

InitThrottle ==
    /\ tags = <<>>
    /\ undoStack = <<>>
    /\ redoStack = <<>>
    /\ last = Call("constructor", "ok")
    /\ linear = Linear(<<>>)
    /\ heap = EmptyHeap
    /\ Holds(constructor(Options(Coasting)))

\* the clock does go on, and the browser does run a timeout that is due
SpecThrottle ==
    /\ InitThrottle /\ [][NextThrottle]_vars
    /\ WF_vars(Pass)
    /\ \A fn \in DOMAIN limit : WF_vars(Delayed(fn))

\* the timeouts of the throttled function fn that wait
Pending(fn) == SelectSeq(throttle.timeouts, LAMBDA w : w.fn = fn)

(* C33: for each throttled function: its first call runs the wrapped function
   at once with the arguments of the call; of the later calls at most one
   timeout waits at any time; a timeout that runs the wrapped function runs
   it with the arguments of the latest call; and calls that wait do not wait
   for ever: the wrapped function comes to be executed with the arguments of
   the last of them. *)
C33_ThrottleKeepsLastSample ==
    /\ [][\A fn \in DOMAIN limit :
              /\ (last'.op = "throttled" /\ throttle.of[fn].lastRan = 0
                      /\ throttle'.of[fn].called # throttle.of[fn].called) =>
                     /\ throttle'.of[fn].ran = throttle'.of[fn].called
                     /\ throttle'.of[fn].burst = 0
              /\ (last'.op = "delayed" /\ throttle'.of[fn].ran # throttle.of[fn].ran) =>
                     throttle'.of[fn].ran = throttle.of[fn].called]_vars
    /\ [](\A fn \in DOMAIN limit : Len(Pending(fn)) <= 1)
    /\ \A fn \in DOMAIN limit :
           (throttle.of[fn].burst > 0)
               ~> (throttle.of[fn].burst = 0 /\ throttle.of[fn].ran = throttle.of[fn].called)

\* a burst of moves of the pointer, the last of them over the first tag, that
\* one execution by a timeout has stood for, with the arguments of the last
C33_Witness ==
    /\ last.op = "delayed"
    /\ throttle.of["_onCanvasMouseMove"].coalesced = MaxBurst
    /\ throttle.of["_onCanvasMouseMove"].burst = 0
    /\ throttle.of["_onCanvasMouseMove"].ran = {Event({0}, 600, 800, 0, 0)}
    /\ throttle.of["_resize"].burst > 0


---------------------------------------------------------------------------
(* C34: in every state this._hoveredIndex is null or the position of a tag in
   this.tags, the tag that was hovered (the one that has the hover scale), and
   no mousemove and no mouseleave has raised a TypeError on a tag that is not
   there; under SpecHover, where tags are added, removed, replaced and
   cleared and an edit is undone while a tag is hovered. *)
C34_HoveredIndexIsValid ==
    /\ _hoveredIndex # null =>
           /\ _hoveredIndex + 1 \in 1..Len(tags)
           /\ tags[_hoveredIndex + 1]._scale = HoverScale
    /\ last.op \in {"mousemove", "mouseleave"} => last.outcome # "TypeError"

\* What does hold: a mousemove that sets the hovered index sets it to the
\* position of a tag that is there and has the hover scale; it is the calls
\* that change this.tags that leave the index behind.
C34_MoveSetsValidIndex ==
    [][(last'.op = "mousemove" /\ last'.outcome = "ok" /\ _hoveredIndex' # _hoveredIndex
            /\ _hoveredIndex' # null) =>
           /\ _hoveredIndex' + 1 \in 1..Len(tags')
           /\ tags'[_hoveredIndex' + 1]._scale = HoverScale]_vars

\* the hovered index past the end of the tags after a removeTag, and a
\* mouseleave that has raised a TypeError
C34_IndexPastTheEnd ==
    /\ last.op = "removeTag" /\ _hoveredIndex # null /\ _hoveredIndex >= Len(tags)
C34_LeaveRaised ==
    /\ last.op = "mouseleave" /\ last.outcome = "TypeError"


---------------------------------------------------------------------------
(* C35: no undo() and no redo() raises an exception, in any state, those
   after a setTags or a clearTags with entries on the stacks included: an
   'update' entry is applied only at a position that holds a tag.  Under
   SpecReplace. *)
C35_UndoRedoNeverRaise == last.op \in {"undo", "redo"} => ~Raised(last)

\* What does hold, under Spec, where setTags and clearTags are called with
\* both stacks empty only: there undo and redo do not raise.  And under
\* SpecReplace one that raises has moved its entry to the other stack all
\* the same and left the tags as they were.
C35_UndoRedoNeverRaiseOnOwnHistory == ~(Raised(last) /\ last.op \in {"undo", "redo"})

C35_RaisedAfterTheStacksMoved ==
    [][(last'.op \in {"undo", "redo"} /\ Raised(last')) =>
           /\ tags' = tags
           /\ Len(undoStack') + Len(redoStack') = Len(undoStack) + Len(redoStack)
           /\ Len(undoStack') # Len(undoStack)]_vars

\* an undo and a redo that have raised, on no tags
C35_UndoRaised == last.op = "undo" /\ Raised(last) /\ tags = <<>>
C35_RedoRaised == last.op = "redo" /\ Raised(last) /\ tags = <<>>


---------------------------------------------------------------------------
(* C36: at most one decay loop is pending at any time, whatever the releases
   of a drag (a mouseup that reaches the canvas and the window, a release
   while an earlier decay still runs), and no frame runs more than one decay
   step, so that a frame multiplies the velocity by the friction once at
   most.  Under SpecLoop. *)
C36_OneDecayLoop ==
    [][/\ Len(Decays(frames')) <= 1
       /\ last'.op = "frame" => Handled(watch'.ran, {"easeOut"}) <= 1]_vars

\* What does hold: a mouseup starts no more loops than handlers of the release
\* have run for it, each call of _applyDragEasing starting one loop at most
\* and ending none.
C36_OneLoopPerRelease ==
    [][last'.op = "mouseup" =>
           /\ Len(Decays(frames')) >= Len(Decays(frames))
           /\ Len(Decays(frames')) - Len(Decays(frames))
                  <= Handled(watch'.ran, {"endHandler"})]_vars

\* one mouseup on the canvas that has started two loops, and a frame that has
\* run two decay steps
C36_TwoLoopsFromOneRelease ==
    /\ last.op = "mouseup" /\ Handled(watch.ran, {"endHandler"}) = 2
    /\ Len(Decays(frames)) = 2
C36_TwoStepsInOneFrame ==
    /\ last.op = "frame" /\ Handled(watch.ran, {"easeOut"}) = 2


---------------------------------------------------------------------------
(* Pausing by option: the steps of the loop, and updateOptions({paused: true})
   and updateOptions({paused: false}) between them *)
NextPaused ==
    \/ NextLoop
    \/ \E paused \in BOOLEAN : UpdateOptions(Options([paused |-> JsBoolean(paused)]))

SpecPaused == InitLoop /\ [][NextPaused]_vars

\* C37: after every step, if the instance is live (not destroyed) and
\* settings.paused is false, a tick is pending; and an updateOptions that
\* changes settings.paused leaves the pending callbacks as resume() would
\* (paused: false) or as pause() would (paused: true).
C37_UnpausedMeansTicking ==
    [][/\ (inDocument' /\ ~IsTruthy(settings'.paused)) => Ticks(frames') # <<>>
       /\ (last'.op = "updateOptions" /\ settings'.paused # settings.paused) =>
              frames' = (IF IsTruthy(settings'.paused) THEN pause(This)
                         ELSE resume(This)).frames]_vars

\* What does hold: updateOptions({paused: true}) stops the ticks as pause()
\* does, and resume() and the Space key start them again on a paused
\* instance; it is updateOptions({paused: false}) that starts none,
\* settings.paused being false already when it calls resume().
C37_PauseByOptionStopsTicks ==
    [][/\ (last'.op = "updateOptions" /\ IsTruthy(settings'.paused)) =>
              /\ frames' = pause(This).frames
              /\ Ticks(frames') = <<>> /\ animFrame' = 0
       /\ (last'.op \in {"resume", "keydown"} /\ IsTruthy(settings.paused)
               /\ ~IsTruthy(settings'.paused)) =>
              Len(Ticks(frames')) >= 1
       /\ (last'.op = "updateOptions" /\ IsTruthy(settings.paused)
               /\ ~IsTruthy(settings'.paused)) =>
              frames' = frames]_vars

\* a live instance that updateOptions({paused: false}) has left with
\* settings.paused false and no tick pending
C37_UnpausedAndStill ==
    /\ last.op = "updateOptions" /\ inDocument
    /\ ~IsTruthy(settings.paused) /\ Ticks(frames) = <<>>


---------------------------------------------------------------------------
(* The ticks pending: frames, pause and resume by method, by option and by the
   Space key, destroy, tags set, and the redraw an image that has loaded asks
   for *)

\* tag._img.onload = () => this._draw()
Redraw ==
    /\ EngineOnly
    /\ Becomes([This EXCEPT !.tags = _draw(@)])
    /\ last' = Call("onload", "ok")

NextTicks ==
    \/ Frame
    \/ Pause
    \/ Resume
    \/ Destroy
    \/ Dispatch("canvas", "keydown", Key(" "))
    \/ \E paused \in BOOLEAN : UpdateOptions(Options([paused |-> JsBoolean(paused)]))
    \/ StoreOnly /\ NoHistory /\ \E n \in 1..2 : setTags(<<SetTagsData(n)>>)
    \/ Redraw

SpecTicks == InitLoop /\ [][NextTicks]_vars

\* C38: in every state at most one tick is pending, and it is the one whose
\* id this.animFrame holds; under SpecTicks, with pause, resume,
\* updateOptions({paused}), the Space key, destroy, setTags and redraws in any
\* order from the constructed instance.
C38_AtMostOneTick ==
    /\ Len(Ticks(frames)) <= 1
    /\ Ticks(frames) # <<>> => animFrame = Ticks(frames)[1].id

\* one tick pending after the Space key has resumed a paused instance, with
\* a tag set and frames run before
C38_Witness ==
    /\ last.op = "keydown" /\ ~IsTruthy(settings.paused)
    /\ Len(Ticks(frames)) = 1
    /\ Len(tags) = 1
    /\ rotation # [x |-> 0, y |-> 0]


---------------------------------------------------------------------------
(* The cells of the cube layout *)

\* the cell the counter validTags stands for: validTags % side,
\* Math.floor(validTags / side) % side, Math.floor(validTags / (side * side))
CellOf(side, validTags) ==
    [x |-> validTags % side, y |-> (validTags \div side) % side,
     z |-> validTags \div (side * side)]

\* the coordinate of a cell index before it is scaled, in thousandths:
\* index - side / 2 + 0.5
Offset(side, index) == index * 1000 - side * 500 + 500

\* whether the do-while of the layout passes the cell over
AtCentre(side, cell) ==
    /\ Abs(Offset(side, cell.x)) < 100
    /\ Abs(Offset(side, cell.y)) < 100
    /\ Abs(Offset(side, cell.z)) < 100

RECURSIVE cells(_, _, _)
\* the cells of the next n tags, from the counter validTags on
cells(side, validTags, n) ==
    IF n = 0 THEN <<>>
    ELSE IF AtCentre(side, CellOf(side, validTags)) THEN cells(side, validTags + 1, n)
    ELSE <<CellOf(side, validTags)>> \o cells(side, validTags + 1, n - 1)

\* the cube layout has just placed the tags of the scene
CubeLaidOut ==
    /\ last.op = "setTags" /\ Len(scene.tags) >= 1
    /\ settings.shape = JsString("cube")

\* whether the tags of the scene are at the cells cs of a grid of this side
AtCells(cs, side) ==
    \A n \in 1..Len(scene.tags) :
        /\ scene.tags[n].x = JsNumber(Mul(Offset(side, cs[n].x), settings.radius.n \div side) * 2)
        /\ scene.tags[n].y = JsNumber(Mul(Offset(side, cs[n].y), settings.radius.n \div side) * 2)
        /\ scene.tags[n].z = JsNumber(Mul(Offset(side, cs[n].z), settings.radius.n \div side) * 2)

\* C39: the cube layout of N >= 1 tags with side = ceil(cbrt(N)) puts each tag
\* at a cell of its own whose three indices are in 0..side-1 and which is not
\* the cell at the exact centre.
C39_CubeCellsInGrid ==
    CubeLaidOut =>
        LET N == Len(scene.tags)
            side == CeilCbrt(N)
            cs == cells(side, 0, N)
        IN  /\ AtCells(cs, side)
            /\ \A n \in 1..N : cs[n].x \in 0..(side - 1) /\ cs[n].y \in 0..(side - 1)
                                   /\ cs[n].z \in 0..(side - 1)
            /\ \A n, m \in 1..N : cs[n] = cs[m] => n = m
            /\ \A n \in 1..N : ~AtCentre(side, cs[n])

\* What does hold: the cells are distinct, none is the centre, and the x and y
\* indices are in the grid; the z index is in the grid when the side is even,
\* and one layer beyond it at most when the side is odd and the centre cell
\* was passed over.
C39_CubeCellsDistinct ==
    CubeLaidOut =>
        LET N == Len(scene.tags)
            side == CeilCbrt(N)
            cs == cells(side, 0, N)
        IN  /\ AtCells(cs, side)
            /\ \A n \in 1..N : cs[n].x \in 0..(side - 1) /\ cs[n].y \in 0..(side - 1)
                                   /\ cs[n].z \in 0..side
            /\ side % 2 = 0 => \A n \in 1..N : cs[n].z \in 0..(side - 1)
            /\ \A n, m \in 1..N : cs[n] = cs[m] => n = m
            /\ \A n \in 1..N : ~AtCentre(side, cs[n])

\* the cube of one tag: its cell is in the layer behind the grid of side 1;
\* and the cube of four tags, in a grid of side 2
C39_OneTagBeyondTheGrid ==
    /\ CubeLaidOut /\ Len(scene.tags) = 1
    /\ cells(1, 0, 1) = <<[x |-> 0, y |-> 0, z |-> 1]>>
    /\ scene.tags[1].z = JsNumber(2 * settings.radius.n)
C39_FourTagsInTheGrid ==
    /\ CubeLaidOut /\ Len(scene.tags) = 4
    /\ \A n \in 1..4 : cells(2, 0, 4)[n].z = 0



---------------------------------------------------------------------------
(* C40: input of the pointer that is no part of a drag leaves the velocity as
   it is and starts no decay loop: a move of the mouse while no drag is in
   progress, and a mouseup, on the canvas or anywhere in the window, that ends
   no drag in progress.  Under SpecLoop. *)
C40_OutsideDragLeavesVelocity ==
    [][(last'.op \in {"mousemove", "mouseup"} /\ ~Dragging) =>
           /\ velocity' = velocity
           /\ Decays(frames') = Decays(frames)]_vars

\* What does hold: a move of the mouse outside a drag leaves the velocity and
\* the decay loops as they are; a mouseup is taken as a release whether a drag
\* is in progress or not, once by each endHandler that hears it.
C40_MoveOutsideDragLeavesVelocity ==
    [][/\ (last'.op = "mousemove" /\ ~Dragging) =>
              velocity' = velocity /\ Decays(frames') = Decays(frames)
       /\ (last'.op = "mouseup" /\ Handled(watch'.ran, {"endHandler"}) = 1) =>
              velocity' = _applyDragEasing(This).velocity]_vars

\* a mouseup on the canvas of an instance no mousedown has reached yet (the
\* listener of the window is the one a mousedown attaches): the velocity the
\* ticks of autoSpin had set is cut by the friction and a decay loop is
\* pending; and a move of the mouse on such an instance
C40_ReleaseWithoutDragSlows ==
    /\ last.op = "mouseup" /\ _dragHandlers.windowMouseUp = NoHandler
    /\ Handled(watch.ran, {"endHandler"}) = 1
    /\ velocity = [x |-> 250, y |-> 250]
    /\ Len(Decays(frames)) = 1
C40_MoveWithoutDrag ==
    /\ last.op = "mousemove" /\ _dragHandlers.windowMouseUp = NoHandler
    /\ Handled(watch.ran, {"moveHandler"}) = 1
    /\ velocity = [x |-> 500, y |-> 500]
    /\ Decays(frames) = <<>>

=============================================================================
